---- MODULE Spec2Model ----
(***************************************************************************)
(* Model of ffr, the batch file renamer (latest variant of main.go).       *)
(* Strings are sequences of one-character strings, so that the splitting,  *)
(* joining, searching and replacing done by the Go code is computed and    *)
(* not assumed.  The file system is a function from the names of one       *)
(* directory to the identity of the entry stored under that name.          *)
(***************************************************************************)
EXTENDS Integers, Sequences, FiniteSets, TLC

VARIABLES
    fs,            \* the working directory: name -> entry id
    c,             \* the parsed command line (cli.Context) or the call's arguments
    pc,            \* position of the run
    fileInfoList,  \* the collected files, in dispatch order
    idx,           \* number of files already dispatched by process
    dispatched,    \* per dispatched file: its name and how the operation ended
    res,           \* result of the last operation called
    ret            \* what process / the called function returned

vars == <<fs, c, pc, fileInfoList, idx, dispatched, res, ret>>

(***************************************************************************)
(* Bounds of the model.                                                    *)
(***************************************************************************)
MaxFiles == 2
MaxNameLen == 7
MaxSkip == 2
MaxAdd == 2
MaxCount == 2

(***************************************************************************)
(* Characters and strings.                                                 *)
(***************************************************************************)
separator == <<"-">>

DigitSeq == <<"0", "1", "2", "3", "4", "5", "6", "7", "8", "9">>
Digits == {DigitSeq[i] : i \in 1..10}
Lower == {"a", "b", "c", "d", "e", "f", "g", "h", "i", "j", "k", "l", "m",
          "n", "o", "p", "q", "r", "s", "t", "u", "v", "w", "x", "y", "z"}

DigitVal(ch) == (CHOOSE i \in 1..10 : DigitSeq[i] = ch) - 1
DigitChar(n) == DigitSeq[n + 1]

Min(S) == CHOOSE x \in S : \A y \in S : x <= y

\* s[from..] with a 1-based first index
Tail_(s, from) == SubSeq(s, from, Len(s))

\* strings.Index, 1-based; 0 when sub does not occur
Index(s, sub) ==
    LET cand == {i \in 1..(Len(s) - Len(sub) + 1) : SubSeq(s, i, i + Len(sub) - 1) = sub}
    IN  IF cand = {} THEN 0 ELSE Min(cand)

Contains(s, sub) == Index(s, sub) # 0

\* strings.Replace(s, old, new, 1)
Replace1(s, old, new) ==
    IF old = <<>> THEN new \o s
    ELSE LET i == Index(s, old)
         IN  IF i = 0 THEN s
             ELSE SubSeq(s, 1, i - 1) \o new \o Tail_(s, i + Len(old))

\* strings.Split(s, sep)
RECURSIVE Split(_, _)
Split(s, sep) ==
    IF sep = <<>> THEN [i \in 1..Len(s) |-> <<s[i]>>]
    ELSE LET i == Index(s, sep)
         IN  IF i = 0 THEN <<s>>
             ELSE <<SubSeq(s, 1, i - 1)>> \o Split(Tail_(s, i + Len(sep)), sep)

\* strings.Join(parts, sep)
RECURSIVE Join(_, _)
Join(parts, sep) ==
    IF Len(parts) = 0 THEN <<>>
    ELSE IF Len(parts) = 1 THEN parts[1]
    ELSE parts[1] \o sep \o Join(Tail(parts), sep)

\* filepath.Base: the last element of the path ("." for the empty path)
Base(path) ==
    LET slashes == {i \in 1..Len(path) : path[i] = "/"}
        last == IF slashes = {} THEN path
                ELSE Tail_(path, (CHOOSE i \in slashes : \A j \in slashes : j <= i) + 1)
    IN  IF last = <<>> THEN <<".">> ELSE last

\* filepath.Ext: from the last dot of the last element, or empty
Ext(path) ==
    LET dots == {i \in 1..Len(path) :
                    /\ path[i] = "."
                    /\ \A j \in i..Len(path) : path[j] # "/"}
    IN  IF dots = {} THEN <<>>
        ELSE Tail_(path, CHOOSE i \in dots : \A j \in dots : j <= i)

\* the preamble with a base name that ends at the first dot of the name
SplitExt_first(filePath) ==
    [basePath |-> IF \E i \in 1..Len(Base(filePath)) : Base(filePath)[i] = "."
                  THEN SubSeq(Base(filePath), 1,
                              Min({i \in 1..Len(Base(filePath)) : Base(filePath)[i] = "."}) - 1)
                  ELSE Base(filePath),
     ext |-> Ext(filePath)]

\* the "basePath, ext" preamble every operation starts with
SplitExt(filePath) ==
    LET b == Base(filePath)
        e == Ext(filePath)
    IN  [basePath |-> IF e # <<>> THEN SubSeq(b, 1, Len(b) - Len(e)) ELSE b,
         ext |-> e]

(***************************************************************************)
(* The file system collaborator: os.Stat and os.Rename on one directory.   *)
(* Entry ids in Dirs are directories, all others regular files.            *)
(***************************************************************************)
Dirs == {"d1", "d2", "d3"}

Exists(fsys, name) == name \in DOMAIN fsys
IsDir(fsys, name) == Exists(fsys, name) /\ fsys[name] \in Dirs

\* os.Rename: fails when the source is missing, when the new path is empty
\* (no such file or directory), or when a file would replace
\* a directory (or a directory a file); otherwise the source entry is moved
\* over the destination.
osRename(fsys, oldPath, newPath) ==
    IF ~Exists(fsys, oldPath) \/ newPath = <<>> THEN [err |-> "ENOENT", fs |-> fsys]
    ELSE IF Exists(fsys, newPath) /\ IsDir(fsys, newPath) # IsDir(fsys, oldPath)
         THEN [err |-> "EISDIR", fs |-> fsys]
    ELSE [err |-> "",
          fs |-> [n \in (DOMAIN fsys \ {oldPath}) \cup {newPath} |->
                    IF n = newPath THEN fsys[oldPath] ELSE fsys[n]]]

\* safeRename with the existence check dropped: always renames
safeRename_clobber(oldPath, newPath, forceOverwrite, fsys) ==
    LET r == osRename(fsys, oldPath, newPath)
    IN  [err |-> r.err, fs |-> r.fs, called |-> <<[old |-> oldPath, new |-> newPath]>>]

\* safeRename without the oldPath == newPath shortcut
safeRename_noshortcut(oldPath, newPath, forceOverwrite, fsys) ==
    IF Exists(fsys, newPath) /\ ~forceOverwrite
    THEN [err |-> "", fs |-> fsys, called |-> <<>>]
    ELSE LET r == osRename(fsys, oldPath, newPath)
         IN  [err |-> r.err, fs |-> r.fs,
              called |-> <<[old |-> oldPath, new |-> newPath]>>]

\* err "" is nil; called lists the os.Rename calls made
safeRename(oldPath, newPath, forceOverwrite, fsys) ==
    IF oldPath = newPath THEN [err |-> "", fs |-> fsys, called |-> <<>>]
    ELSE IF Exists(fsys, newPath) /\ ~forceOverwrite
         THEN [err |-> "", fs |-> fsys, called |-> <<>>]
    ELSE LET r == osRename(fsys, oldPath, newPath)
         IN  [err |-> r.err, fs |-> r.fs,
              called |-> <<[old |-> oldPath, new |-> newPath]>>]

(***************************************************************************)
(* strconv.Itoa and strconv.ParseInt(s, 10, 32).                           *)
(***************************************************************************)
RECURSIVE ItoaNat(_)
ItoaNat(n) ==
    IF n < 10 THEN <<DigitChar(n)>>
    ELSE ItoaNat(n \div 10) \o <<DigitChar(n % 10)>>

Itoa(n) == IF n < 0 THEN <<"-">> \o ItoaNat(0 - n) ELSE ItoaNat(n)

RECURSIVE DigitsValue(_)
DigitsValue(ds) ==
    IF ds = <<>> THEN 0
    ELSE DigitsValue(SubSeq(ds, 1, Len(ds) - 1)) * 10 + DigitVal(ds[Len(ds)])

RECURSIVE StripZeros(_)
StripZeros(ds) ==
    IF Len(ds) > 1 /\ ds[1] = "0" THEN StripZeros(Tail(ds)) ELSE ds

\* digit strings of equal length compare as numbers, position by position
RECURSIVE DigitsLeq(_, _)
DigitsLeq(a, b) ==
    IF a = <<>> THEN TRUE
    ELSE IF a[1] # b[1] THEN DigitVal(a[1]) < DigitVal(b[1])
    ELSE DigitsLeq(Tail(a), Tail(b))

MaxInt32Digits == <<"2", "1", "4", "7", "4", "8", "3", "6", "4", "7">>

\* err "" is nil; "syntax" and "range" are strconv's two errors
ParseInt(s) ==
    LET neg == s # <<>> /\ s[1] = "-"
        signed == s # <<>> /\ s[1] \in {"-", "+"}
        ds == IF signed THEN Tail(s) ELSE s
        sig == StripZeros(ds)
    IN  IF ds = <<>> \/ \E i \in 1..Len(ds) : ds[i] \notin Digits
        THEN [err |-> "syntax", val |-> 0]
        ELSE IF Len(sig) > Len(MaxInt32Digits)
                \/ (Len(sig) = Len(MaxInt32Digits) /\ ~DigitsLeq(sig, MaxInt32Digits))
        THEN [err |-> "range", val |-> 0]
        ELSE [err |-> "", val |-> IF neg THEN 0 - DigitsValue(sig) ELSE DigitsValue(sig)]

(***************************************************************************)
(* Regular expressions.  A compiled expression is a sequence of items      *)
(* (character class, minimum, maximum; maximum 0 is unbounded), an         *)
(* optional group of items repeated at the end (star), and the capture     *)
(* groups as item ranges.  In every expression the program uses, adjacent  *)
(* items have disjoint classes, so the greedy match takes each run whole.  *)
(***************************************************************************)
Item(cls, min, max) == [cls |-> cls, min |-> min, max |-> max]
Lit(ch) == Item({ch}, 1, 1)

\* number of consecutive characters of s from position i that are in cls
Run(s, i, cls) ==
    LET stops == {j \in i..Len(s) : s[j] \notin cls}
    IN  IF i > Len(s) THEN 0
        ELSE IF stops = {} THEN Len(s) - i + 1 ELSE Min(stops) - i

\* ends[k] is the position after item k; ok is FALSE when an item fails
RECURSIVE MatchItems(_, _, _, _)
MatchItems(items, k, s, i) ==
    IF k > Len(items) THEN [ok |-> TRUE, ends |-> <<>>]
    ELSE LET it == items[k]
             run == Run(s, i, it.cls)
             n == IF it.max > 0 /\ run > it.max THEN it.max ELSE run
         IN  IF n < it.min THEN [ok |-> FALSE, ends |-> <<>>]
             ELSE LET rest == MatchItems(items, k + 1, s, i + n)
                  IN  IF rest.ok THEN [ok |-> TRUE, ends |-> <<i + n>> \o rest.ends]
                      ELSE rest

\* the repeated group: [end, last] after as many repetitions as match from i,
\* last being the start of the final repetition (0 when there is none)
RECURSIVE MatchStar(_, _, _, _)
StarStep(star, s, i, last, m) ==
    IF star = <<>> \/ ~m.ok \/ m.ends[Len(star)] = i
    THEN [end |-> i, last |-> last]
    ELSE MatchStar(star, s, m.ends[Len(star)], i)

MatchStar(star, s, i, last) == StarStep(star, s, i, last, MatchItems(star, 1, s, i))

\* the text of capture group g, given where the items (ends) and the
\* repeated group (st) of a match starting at i end
GroupText(g, s, i, ends, st) ==
    IF g.last THEN (IF st.last = 0 THEN <<>> ELSE SubSeq(s, st.last, st.end - 1))
    ELSE SubSeq(s, IF g.from = 1 THEN i ELSE ends[g.from - 1],
                (IF g.to > Len(ends) THEN st.end ELSE ends[g.to]) - 1)

Submatches(re, s, i, ends, st) ==
    [ok |-> TRUE, end |-> st.end,
     sub |-> [g \in 0..Len(re.groups) |->
                IF g = 0 THEN SubSeq(s, i, st.end - 1)
                ELSE GroupText(re.groups[g], s, i, ends, st)]]

MatchFrom(re, s, i, m) ==
    IF ~m.ok THEN [ok |-> FALSE, end |-> i, sub |-> <<>>]
    ELSE Submatches(re, s, i, m.ends, MatchStar(re.star, s, m.ends[Len(re.items)], 0))

\* the match of expression re at position i of s: its submatches sub[0..n]
MatchAt(re, s, i) == MatchFrom(re, s, i, MatchItems(re.items, 1, s, i))

\* of the matches at every position (at), those a left-to-right scan keeps:
\* the leftmost one, then the leftmost one after its end, and so on
RECURSIVE Leftmost(_, _)
Leftmost(at, from) ==
    LET hits == {i \in from..Len(at) : at[i].ok}
    IN  IF hits = {} THEN <<>>
        ELSE <<at[Min(hits)].sub>> \o Leftmost(at, at[Min(hits)].end)

\* Regexp.FindAllStringSubmatch(s, -1)
FindAllStringSubmatch(re, s) == Leftmost([i \in 1..Len(s) |-> MatchAt(re, s, i)], 1)

Group(from, to) == [from |-> from, to |-> to, last |-> FALSE]
LastRepetition == [from |-> 0, to |-> 0, last |-> TRUE]

(***************************************************************************)
(* The expressions the program compiles, as source text and compiled.      *)
(***************************************************************************)
ReAddNumberDefault == <<"-", "(", "\\", "d", "+", ")", "[", "a", "-", "z", "]", "+">>
ReDeleteDefault == <<"-", "\\", "d", "+", "[", "a", "-", "z", "]", "+">>
ReInsertDefault == <<"\\", "d", "+", "[", "a", "-", "z", "]", "+">>
ReMergeDefault == <<"(", "[", "a", "-", "z", "]", "+", ")">>
ReMergeHead == <<"-", "(", "\\", "d", "{", "1", ",", "2", "}", ")", "(">>
ReMergeTail == <<"(", "-", "[", "a", "-", "z", "]", "+", "\\", "d", "*", ")", "*", ")">>
ReResolution == <<"-", "(", "\\", "d", "+", ")", "p">>
ReMalformed == <<"(">>

DigitsThenLower == <<Item(Digits, 1, 0), Item(Lower, 1, 0)>>

dateRegexp1 == [items |-> <<Lit("2"), Lit("0"), Item(Digits, 6, 6)>>, star |-> <<>>,
                groups |-> <<>>]
dateRegexp2 == [items |-> <<Item(Digits, 6, 6)>>, star |-> <<>>, groups |-> <<>>]

\* regexp.Compile on the sources the model draws; err "" is nil
Compile(src) ==
    CASE src = ReAddNumberDefault ->
            [err |-> "", re |-> [items |-> <<Lit("-")>> \o DigitsThenLower, star |-> <<>>,
                                 groups |-> <<Group(2, 2)>>]]
      [] src = ReDeleteDefault ->
            [err |-> "", re |-> [items |-> <<Lit("-")>> \o DigitsThenLower, star |-> <<>>,
                                 groups |-> <<>>]]
      [] src = ReResolution ->
            [err |-> "", re |-> [items |-> <<Lit("-"), Item(Digits, 1, 0), Lit("p")>>,
                                 star |-> <<>>, groups |-> <<Group(2, 2)>>]]
      [] src = <<"-", "(">> \o ReInsertDefault \o <<")">> ->
            [err |-> "", re |-> [items |-> <<Lit("-")>> \o DigitsThenLower, star |-> <<>>,
                                 groups |-> <<Group(2, 3)>>]]
      [] src = <<"(">> \o ReInsertDefault \o <<")">> ->
            [err |-> "", re |-> [items |-> DigitsThenLower, star |-> <<>>,
                                 groups |-> <<Group(1, 2)>>]]
      [] src = ReMergeHead \o ReMergeDefault \o ReMergeTail ->
            [err |-> "", re |-> [items |-> <<Lit("-"), Item(Digits, 1, 2), Item(Lower, 1, 0)>>,
                                 star |-> <<Lit("-"), Item(Lower, 1, 0), Item(Digits, 0, 0)>>,
                                 groups |-> <<Group(2, 2), Group(3, 4), Group(3, 3),
                                              LastRepetition>>]]
      [] Contains(src, ReMalformed \o ReMalformed) \/ src = ReMalformed
            \/ src = <<"-", "(">> \o ReMalformed \o <<")">>
            \/ src = <<"(">> \o ReMalformed \o <<")">> ->
            [err |-> "syntax", re |-> [items |-> <<>>, star |-> <<>>, groups |-> <<>>]]

(***************************************************************************)
(* What an operation returns: out is "nil", "err" or "panic"; planned says *)
(* whether a new name was computed; called lists the os.Rename calls and   *)
(* sr the safeRename calls.                                                *)
(***************************************************************************)
OpErr(msg, fsys) ==
    [out |-> "err", err |-> msg, fs |-> fsys, planned |-> FALSE, newPath |-> <<>>,
     called |-> <<>>, sr |-> <<>>]

OpPanic(msg, fsys) ==
    [out |-> "panic", err |-> msg, fs |-> fsys, planned |-> FALSE, newPath |-> <<>>,
     called |-> <<>>, sr |-> <<>>]

\* a return of nil without touching the file system
OpNil(planned, newPath, fsys) ==
    [out |-> "nil", err |-> "", fs |-> fsys, planned |-> planned, newPath |-> newPath,
     called |-> <<>>, sr |-> <<>>]

\* "return safeRename(filePath, newPath, forceOverwrite)"
OpRename(filePath, newPath, forceOverwrite, fsys) ==
    LET r == safeRename(filePath, newPath, forceOverwrite, fsys)
    IN  [out |-> IF r.err = "" THEN "nil" ELSE "err", err |-> r.err, fs |-> r.fs,
         planned |-> TRUE, newPath |-> newPath, called |-> r.called,
         sr |-> <<[old |-> filePath, new |-> newPath, force |-> forceOverwrite]>>]

\* the ending of an operation without its dryRun check
Finish_nodry(filePath, newPath, forceOverwrite, dryRun, fsys) ==
    OpRename(filePath, newPath, forceOverwrite, fsys)

\* the "if dryRun { log; return nil }; return safeRename(...)" ending
Finish(filePath, newPath, forceOverwrite, dryRun, fsys) ==
    IF dryRun THEN OpNil(TRUE, newPath, fsys)
    ELSE OpRename(filePath, newPath, forceOverwrite, fsys)

(***************************************************************************)
(* prefix and suffix.                                                      *)
(***************************************************************************)
\* panic is TRUE where the Go code panics (its own check, or a slice bound)
concat(parts, skip, newPart, ext, sep) ==
    IF Len(parts) < skip \/ skip < 0 THEN [panic |-> TRUE, val |-> <<>>]
    ELSE LET start0 == Join(SubSeq(parts, 1, skip), sep)
             start == IF start0 # <<>> THEN start0 \o sep ELSE start0
             end0 == Join(SubSeq(parts, skip + 1, Len(parts)), sep)
             end == IF end0 # <<>> THEN sep \o end0 ELSE end0
         IN  [panic |-> FALSE, val |-> start \o newPart \o end \o ext]

prefix(fi, newPart, skip, forceOverwrite, dryRun, fsys) ==
    LET filePath == fi.name
        se == SplitExt(filePath)
        parts == Split(se.basePath, separator)
        newPath == concat(parts, skip, newPart, se.ext, separator)
    IN  IF newPath.panic THEN OpPanic("unsafe usage of concat", fsys)
        ELSE Finish(filePath, newPath.val, forceOverwrite, dryRun, fsys)

\* suffix that puts newPart first, whatever skip is
suffix_front(fi, newPart, skip, forceOverwrite, dryRun, fsys) ==
    prefix(fi, newPart, 0, forceOverwrite, dryRun, fsys)

suffix(fi, newPart, skip, forceOverwrite, dryRun, fsys) ==
    LET filePath == fi.name
        se == SplitExt(filePath)
        parts == Split(se.basePath, separator)
        skipInverse == Len(parts) - skip
        newPath == concat(parts, skipInverse, newPart, se.ext, separator)
    IN  IF skip > Len(parts) THEN OpErr("more to skip then parts present", fsys)
        ELSE IF newPath.panic THEN OpPanic("unsafe usage of concat", fsys)
        ELSE Finish(filePath, newPath.val, forceOverwrite, dryRun, fsys)

(***************************************************************************)
(* replace.                                                                *)
(***************************************************************************)
\* replace that always works on the first occurrence, whatever skip is
replace_first(fi, search, replaceWith, skip, forceOverwrite, dryRun, fsys) ==
    IF skip > Len(Split(SplitExt(fi.name).basePath, search)) - 1
    THEN OpErr("more to skip than found occurances", fsys)
    ELSE IF Len(Split(SplitExt(fi.name).basePath, search)) <= 1
         THEN OpRename(fi.name, fi.name, FALSE, fsys)
    ELSE Finish(fi.name,
                Replace1(SplitExt(fi.name).basePath, search, replaceWith) \o SplitExt(fi.name).ext,
                forceOverwrite, dryRun, fsys)

replace(fi, search, replaceWith, skip, forceOverwrite, dryRun, fsys) ==
    LET filePath == fi.name
        se == SplitExt(filePath)
        parts == Split(se.basePath, search)
        start == Join(SubSeq(parts, 1, skip + 1), search)
        end == Join(SubSeq(parts, skip + 2, Len(parts)), search)
        newPath == start \o replaceWith \o end \o se.ext
    IN  IF skip > Len(parts) - 1
        THEN OpErr("more to skip than found occurances", fsys)
        ELSE IF Len(parts) <= 1 THEN OpRename(filePath, filePath, FALSE, fsys)
        ELSE IF skip + 1 < 0 THEN OpPanic("slice bounds out of range", fsys)
        ELSE Finish(filePath, newPath, forceOverwrite, dryRun, fsys)

(***************************************************************************)
(* deleteParts.                                                            *)
(***************************************************************************)
\* the parts whose 0-based index is not in drop, in their order
RECURSIVE KeepParts(_, _, _)
KeepParts(parts, i, drop) ==
    IF i > Len(parts) THEN <<>>
    ELSE (IF (i - 1) \in drop THEN <<>> ELSE <<parts[i]>>) \o KeepParts(parts, i + 1, drop)

\* deleteParts that always counts from the front
deleteParts_front(fi, partsToDelete, fromBack, forceOverwrite, dryRun, fsys) ==
    Finish(fi.name,
           Join(KeepParts(Split(SplitExt(fi.name).basePath, separator), 1,
                          {partsToDelete[k] - 1 : k \in 1..Len(partsToDelete)}),
                separator) \o SplitExt(fi.name).ext,
           forceOverwrite, dryRun, fsys)

deleteParts(fi, partsToDelete, fromBack, forceOverwrite, dryRun, fsys) ==
    LET filePath == fi.name
        se == SplitExt(filePath)
        parts == Split(se.basePath, separator)
        m == {IF fromBack THEN Len(parts) - partsToDelete[k] ELSE partsToDelete[k] - 1 :
                k \in 1..Len(partsToDelete)}
        newParts == KeepParts(parts, 1, m)
        newPath == Join(newParts, separator) \o se.ext
    IN  Finish(filePath, newPath, forceOverwrite, dryRun, fsys)

(***************************************************************************)
(* deleteRegexp.                                                           *)
(***************************************************************************)
\* the loop over matches[skipFinds:], i being the 0-based loop index
RECURSIVE deleteLoop(_, _, _, _, _)
deleteLoop(basePath, matches, i, maxCount, regexpGroup) ==
    IF i >= Len(matches) \/ (maxCount > 0 /\ i >= maxCount)
    THEN [panic |-> FALSE, basePath |-> basePath]
    ELSE LET m == matches[i + 1]
         IN  IF regexpGroup \notin DOMAIN m
             THEN [panic |-> TRUE, basePath |-> basePath]
             ELSE deleteLoop(Replace1(basePath, m[regexpGroup], <<>>), matches, i + 1,
                             maxCount, regexpGroup)

\* deleteRegexp without its test for an empty list of matches
deleteRegexp_nocheck(fi, regularExpression, regexpGroup, skipFinds, maxCount, forceOverwrite, dryRun, fsys) ==
    LET r == Compile(IF regularExpression = <<>> THEN ReDeleteDefault ELSE regularExpression)
    IN  IF r.err # "" THEN OpErr(r.err, fsys)
        ELSE IF skipFinds < 0 \/ skipFinds > Len(FindAllStringSubmatch(r.re, SplitExt(fi.name).basePath))
             THEN OpPanic("slice bounds out of range", fsys)
        ELSE Finish(fi.name,
                    deleteLoop(SplitExt(fi.name).basePath,
                               Tail_(FindAllStringSubmatch(r.re, SplitExt(fi.name).basePath),
                                     skipFinds + 1),
                               0, maxCount, regexpGroup).basePath \o SplitExt(fi.name).ext,
                    forceOverwrite, dryRun, fsys)

deleteRegexp(fi, regularExpression, regexpGroup, skipFinds, maxCount, forceOverwrite, dryRun, fsys) ==
    LET filePath == fi.name
        se == SplitExt(filePath)
        src == IF regularExpression = <<>> THEN ReDeleteDefault ELSE regularExpression
        r == Compile(src)
        matches == FindAllStringSubmatch(r.re, se.basePath)
        loop == deleteLoop(se.basePath, Tail_(matches, skipFinds + 1), 0, maxCount,
                           regexpGroup)
    IN  IF r.err # "" THEN OpErr(r.err, fsys)
        ELSE IF Len(matches) = 0 THEN OpErr("no matches", fsys)
        ELSE IF skipFinds < 0 \/ skipFinds > Len(matches)
             THEN OpPanic("slice bounds out of range", fsys)
        ELSE IF loop.panic THEN OpPanic("index out of range", fsys)
        ELSE Finish(filePath, loop.basePath \o se.ext, forceOverwrite, dryRun, fsys)

(***************************************************************************)
(* addNumber.                                                              *)
(***************************************************************************)
\* the loop over matches[skipFinds:], i being the 0-based loop index
RECURSIVE addLoop(_, _, _, _, _, _)
addLoop(basePath, matches, i, maxCount, numberToAdd, regexpGroup) ==
    IF i >= Len(matches) \/ (maxCount > 0 /\ i >= maxCount)
    THEN [out |-> "nil", err |-> "", basePath |-> basePath]
    ELSE LET m == matches[i + 1]
             numberFound == ParseInt(m[regexpGroup])
             n1 == Itoa(numberFound.val)
             n2 == Itoa(numberFound.val + numberToAdd)
             replaceWith == Replace1(m[0], n1, n2)
         IN  IF regexpGroup \notin DOMAIN m
             THEN [out |-> "panic", err |-> "index out of range", basePath |-> basePath]
             ELSE IF numberFound.err # ""
             THEN [out |-> "err", err |-> numberFound.err, basePath |-> basePath]
             ELSE addLoop(Replace1(basePath, m[0], replaceWith), matches, i + 1,
                          maxCount, numberToAdd, regexpGroup)

addNumber(fi, regularExpression, numberToAdd, regexpGroup, skipFinds, maxCount, forceOverwrite, dryRun, fsys) ==
    LET filePath == fi.name
        se == SplitExt(filePath)
        src == IF regularExpression = <<>> THEN ReAddNumberDefault ELSE regularExpression
        group == IF regularExpression = <<>> THEN 1 ELSE regexpGroup
        r == Compile(src)
        matches == FindAllStringSubmatch(r.re, se.basePath)
        loop == addLoop(se.basePath, Tail_(matches, skipFinds + 1), 0, maxCount,
                        numberToAdd, group)
    IN  IF r.err # "" THEN OpErr(r.err, fsys)
        ELSE IF Len(matches) = 0 THEN OpErr("no matches", fsys)
        ELSE IF skipFinds < 0 \/ skipFinds > Len(matches)
             THEN OpPanic("slice bounds out of range", fsys)
        ELSE IF loop.out = "panic" THEN OpPanic(loop.err, fsys)
        ELSE IF loop.out = "err" THEN OpErr(loop.err, fsys)
        ELSE Finish(filePath, loop.basePath \o se.ext, forceOverwrite, dryRun, fsys)

(***************************************************************************)
(* insertBefore.                                                           *)
(***************************************************************************)
\* insertBefore without its fallback: no match is an error
insertBefore_strict(fi, regularExpression, insertText, skipDuplicate, skipDashPrefix, forceOverwrite, dryRun, fsys) ==
    LET r == Compile((IF skipDashPrefix THEN <<>> ELSE <<"-">>) \o <<"(">>
                     \o (IF regularExpression = <<>> THEN ReInsertDefault ELSE regularExpression)
                     \o <<")">>)
        base == SplitExt(fi.name).basePath
    IN  IF skipDuplicate /\ Contains(fi.name, insertText) THEN OpNil(FALSE, <<>>, fsys)
        ELSE IF r.err # "" THEN OpErr("regexp failed", fsys)
        ELSE IF FindAllStringSubmatch(r.re, base) = <<>> THEN OpErr("no matches", fsys)
        ELSE Finish(fi.name,
                    Replace1(base,
                             FindAllStringSubmatch(r.re, base)[Len(FindAllStringSubmatch(r.re, base))][1],
                             insertText \o <<"-">>
                                 \o FindAllStringSubmatch(r.re, base)[Len(FindAllStringSubmatch(r.re, base))][1])
                        \o SplitExt(fi.name).ext,
                    forceOverwrite, dryRun, fsys)

\* insertBefore without its test for a duplicate: a name that has the text
\* gets it again
insertBefore_again(fi, regularExpression, insertText, skipDuplicate, skipDashPrefix, forceOverwrite, dryRun, fsys) ==
    LET r == Compile((IF skipDashPrefix THEN <<>> ELSE <<"-">>) \o <<"(">>
                     \o (IF regularExpression = <<>> THEN ReInsertDefault ELSE regularExpression)
                     \o <<")">>)
        base == SplitExt(fi.name).basePath
    IN  IF r.err # "" THEN OpErr("regexp failed", fsys)
        ELSE IF FindAllStringSubmatch(r.re, base) = <<>>
             THEN Finish(fi.name, base \o <<"-">> \o insertText \o SplitExt(fi.name).ext,
                         forceOverwrite, dryRun, fsys)
        ELSE Finish(fi.name,
                    Replace1(base,
                             FindAllStringSubmatch(r.re, base)[Len(FindAllStringSubmatch(r.re, base))][1],
                             insertText \o <<"-">>
                                 \o FindAllStringSubmatch(r.re, base)[Len(FindAllStringSubmatch(r.re, base))][1])
                        \o SplitExt(fi.name).ext,
                    forceOverwrite, dryRun, fsys)

insertBefore(fi, regularExpression, insertText, skipDuplicate, skipDashPrefix, forceOverwrite, dryRun, fsys) ==
    LET filePath == fi.name
        re0 == IF regularExpression = <<>> THEN ReInsertDefault ELSE regularExpression
        se == SplitExt(filePath)
        re1 == <<"(">> \o re0 \o <<")">>
        src == IF ~skipDashPrefix THEN <<"-">> \o re1 ELSE re1
        r == Compile(src)
        matched == FindAllStringSubmatch(r.re, se.basePath)
        found == matched[Len(matched)][1]
        newPath == IF Len(matched) > 0
                   THEN Replace1(se.basePath, found, insertText \o <<"-">> \o found) \o se.ext
                   ELSE se.basePath \o <<"-">> \o insertText \o se.ext
    IN  IF skipDuplicate /\ Contains(filePath, insertText) THEN OpNil(FALSE, <<>>, fsys)
        ELSE IF r.err # "" THEN OpErr("regexp failed", fsys)
        ELSE Finish(filePath, newPath, forceOverwrite, dryRun, fsys)

(***************************************************************************)
(* mergeParts.                                                             *)
(***************************************************************************)
\* strings.Replace(s, old, "", -1) for a one-character old
RemoveAll(s, ch) == SelectSeq(s, LAMBDA x : x # ch)

\* the loop from the last match to the first: cuts len(m[0]) characters off
\* the end of basePath and adds up the numbers; i is the 1-based match index
RECURSIVE mergeLoop(_, _, _, _)
mergeLoop(basePath, matches, i, sum) ==
    IF i < 1 THEN [err |-> "", basePath |-> basePath, sum |-> sum]
    ELSE LET m == matches[i]
             s == ParseInt(m[1])
         IN  IF s.err # "" THEN [err |-> s.err, basePath |-> basePath, sum |-> sum]
             ELSE mergeLoop(SubSeq(basePath, 1, Len(basePath) - Len(m[0])), matches,
                            i - 1, sum + s.val)

mergeParts(fi, regularExpression, deleteText, forceOverwrite, dryRun, fsys) ==
    LET filePath == fi.name
        se == SplitExt(filePath)
        stripped == RemoveAll(RemoveAll(regularExpression, "("), ")")
        wrong == regularExpression # <<>> /\ Len(stripped) < Len(regularExpression) - 2
        fragment == IF regularExpression = <<>> THEN ReMergeDefault
                    ELSE IF Len(stripped) = Len(regularExpression)
                         THEN <<"(">> \o regularExpression \o <<")">>
                    ELSE regularExpression
        r == Compile(ReMergeHead \o fragment \o ReMergeTail)
        matches == FindAllStringSubmatch(r.re, se.basePath)
        loop == mergeLoop(se.basePath, matches, Len(matches), 0)
        extra == [i \in 1..Len(matches) |-> matches[i][2]]
        merged == loop.basePath \o <<"-">> \o Itoa(loop.sum) \o Join(extra, <<"-">>) \o se.ext
        newPath == IF deleteText # <<>> THEN Replace1(merged, deleteText, <<>>) ELSE merged
    IN  IF wrong THEN OpErr("wrong regular expression received", fsys)
        ELSE IF r.err # "" THEN OpErr(r.err, fsys)
        ELSE IF loop.err # "" THEN OpErr(loop.err, fsys)
        ELSE Finish(filePath, newPath, forceOverwrite, dryRun, fsys)

(***************************************************************************)
(* prefixDate.                                                             *)
(***************************************************************************)
dateFormat1 == "20060102"
dateFormat2 == "060102"

IsLeap(y) == (y % 4 = 0 /\ y % 100 # 0) \/ y % 400 = 0

DaysIn(m, y) ==
    IF m = 2 THEN (IF IsLeap(y) THEN 29 ELSE 28)
    ELSE IF m \in {4, 6, 9, 11} THEN 30 ELSE 31

\* time.Parse(format, value) for the two layouts; a two-digit year below 69
\* is in the 2000s
timeParse(format, value) ==
    LET yl == IF format = dateFormat1 THEN 4 ELSE 2
        yy == DigitsValue(SubSeq(value, 1, yl))
        year == IF format = dateFormat1 THEN yy
                ELSE IF yy >= 69 THEN 1900 + yy ELSE 2000 + yy
        month == DigitsValue(SubSeq(value, yl + 1, yl + 2))
        day == DigitsValue(SubSeq(value, yl + 3, yl + 4))
    IN  IF month < 1 \/ month > 12 THEN [err |-> "month out of range", y |-> 0, m |-> 0, d |-> 0]
        ELSE IF day < 1 \/ day > DaysIn(month, year)
             THEN [err |-> "day out of range", y |-> 0, m |-> 0, d |-> 0]
        ELSE [err |-> "", y |-> year, m |-> month, d |-> day]

Pad(n, width) ==
    LET s == Itoa(n)
    IN  [i \in 1..(width - Len(s)) |-> "0"] \o s

\* Time.Format("2006.01.02")
timeFormat3(t) == Pad(t.y, 4) \o <<".">> \o Pad(t.m, 2) \o <<".">> \o Pad(t.d, 2)

\* prefixDate that takes the first match when there are several
prefixDate_first(fi, forceOverwrite, dryRun, fsys) ==
    LET base == SplitExt(fi.name).basePath
        long == FindAllStringSubmatch(dateRegexp1, base) # <<>>
        matches == IF long THEN FindAllStringSubmatch(dateRegexp1, base)
                   ELSE FindAllStringSubmatch(dateRegexp2, base)
    IN  IF matches = <<>> THEN OpErr("no matches", fsys)
        ELSE IF timeParse(IF long THEN dateFormat1 ELSE dateFormat2, matches[1][0]).err # ""
             THEN OpErr("failed to parse date", fsys)
        ELSE Finish(fi.name,
                    timeFormat3(timeParse(IF long THEN dateFormat1 ELSE dateFormat2,
                                          matches[1][0]))
                        \o <<"-">> \o base \o SplitExt(fi.name).ext,
                    forceOverwrite, dryRun, fsys)

prefixDate(fi, forceOverwrite, dryRun, fsys) ==
    LET filePath == fi.name
        se == SplitExt(filePath)
        matches1 == FindAllStringSubmatch(dateRegexp1, se.basePath)
        matches2 == FindAllStringSubmatch(dateRegexp2, se.basePath)
        matches == IF Len(matches1) = 0 THEN matches2 ELSE matches1
        format == IF Len(matches1) = 0 THEN dateFormat2 ELSE dateFormat1
        parsedDate == timeParse(format, matches[1][0])
        newPath == timeFormat3(parsedDate) \o <<"-">> \o se.basePath \o se.ext
    IN  IF Len(matches) = 0 THEN OpErr("no matches", fsys)
        ELSE IF Len(matches) > 1 THEN OpErr("too many matches", fsys)
        ELSE IF parsedDate.err # "" THEN OpErr("failed to parse date", fsys)
        ELSE Finish(filePath, newPath, forceOverwrite, dryRun, fsys)

(***************************************************************************)
(* The command layer: the App methods read the flags from the context and  *)
(* the texts from the positional arguments process hands them.             *)
(***************************************************************************)
App_prefix(ctx, args, fi, dryRun, fsys) ==
    IF Len(args) = 0 THEN OpNil(FALSE, <<>>, fsys)
    ELSE prefix(fi, args[1], ctx.skipParts, ctx.force, dryRun, fsys)

App_suffix(ctx, args, fi, dryRun, fsys) ==
    IF Len(args) < 1 THEN OpPanic("index out of range", fsys)
    ELSE suffix(fi, args[1], ctx.skipParts, ctx.force, dryRun, fsys)

App_replace(ctx, args, fi, dryRun, fsys) ==
    IF Len(args) < 2 THEN OpNil(FALSE, <<>>, fsys)
    ELSE replace(fi, args[1], args[2], ctx.skipFinds, ctx.force, dryRun, fsys)

App_mergeParts(ctx, args, fi, dryRun, fsys) ==
    mergeParts(fi, ctx.regexp, ctx.deleteText, ctx.force, dryRun, fsys)

App_deleteRegexp(ctx, args, fi, dryRun, fsys) ==
    deleteRegexp(fi, ctx.regexp, ctx.regexpGroup, ctx.skipFinds, ctx.maxCount, ctx.force,
                 dryRun, fsys)

App_deleteParts(ctx, args, fi, dryRun, fsys) ==
    LET strList == Split(args[1], <<",">>)
        nums == [k \in 1..Len(strList) |-> ParseInt(strList[k])]
    IN  IF Len(args) < 1 THEN OpPanic("index out of range", fsys)
        ELSE IF \E k \in 1..Len(nums) : nums[k].err # "" THEN OpPanic("ParseInt", fsys)
        ELSE deleteParts(fi, [k \in 1..Len(nums) |-> nums[k].val], ctx.fromBack, ctx.force,
                         dryRun, fsys)

App_addNumber(ctx, args, fi, dryRun, fsys) ==
    LET numberToAdd == ParseInt(args[1])
    IN  IF Len(args) < 1 THEN OpPanic("index out of range", fsys)
        ELSE IF numberToAdd.err # "" THEN OpErr(numberToAdd.err, fsys)
        ELSE addNumber(fi, ctx.regexp, numberToAdd.val, ctx.regexpGroup, ctx.skipFinds,
                       ctx.maxCount, ctx.force, dryRun, fsys)

\* reads args[1] in Go's 0-based indexing: the second positional text
App_insertBefore(ctx, args, fi, dryRun, fsys) ==
    IF Len(args) < 2 THEN OpPanic("index out of range", fsys)
    ELSE insertBefore(fi, ctx.regexp, args[2], ctx.skipDuplicate, ctx.skipDashPrefix,
                      ctx.force, dryRun, fsys)

App_datePrefix(ctx, args, fi, dryRun, fsys) ==
    prefixDate(fi, ctx.force, dryRun, fsys)

\* the commands of main and the argCount each passes to process
Commands == {"add-number", "delete-parts", "delete-regexp", "insert-before", "merge-parts",
             "prefix", "replace", "suffix", "prefix-date"}

ArgCount(cmd) ==
    CASE cmd \in {"add-number", "delete-parts", "insert-before", "prefix", "suffix"} -> 1
      [] cmd = "replace" -> 2
      [] cmd \in {"delete-regexp", "merge-parts", "prefix-date"} -> 0

\* fn(c, args, fi, dryRun) for the command's Action
Fn(ctx, args, fi, dryRun, fsys) ==
    CASE ctx.cmd = "add-number" -> App_addNumber(ctx, args, fi, dryRun, fsys)
      [] ctx.cmd = "delete-parts" -> App_deleteParts(ctx, args, fi, dryRun, fsys)
      [] ctx.cmd = "delete-regexp" -> App_deleteRegexp(ctx, args, fi, dryRun, fsys)
      [] ctx.cmd = "insert-before" -> App_insertBefore(ctx, args, fi, dryRun, fsys)
      [] ctx.cmd = "merge-parts" -> App_mergeParts(ctx, args, fi, dryRun, fsys)
      [] ctx.cmd = "prefix" -> App_prefix(ctx, args, fi, dryRun, fsys)
      [] ctx.cmd = "replace" -> App_replace(ctx, args, fi, dryRun, fsys)
      [] ctx.cmd = "suffix" -> App_suffix(ctx, args, fi, dryRun, fsys)
      [] ctx.cmd = "prefix-date" -> App_datePrefix(ctx, args, fi, dryRun, fsys)

(***************************************************************************)
(* The batch driver: getFileInfoList and process.                          *)
(***************************************************************************)
Reverse(s) == [i \in 1..Len(s) |-> s[Len(s) + 1 - i]]

\* a collection that drops what it cannot use instead of ending the run
getFileInfoList_lenient(filePaths, backwardsFlag, fsys) ==
    LET good == SelectSeq(filePaths, LAMBDA p : Exists(fsys, p) /\ ~IsDir(fsys, p))
        list == [i \in 1..Len(good) |-> [name |-> Base(good[i])]]
    IN  [fatal |-> "", list |-> IF backwardsFlag THEN Reverse(list) ELSE list]

\* fatal "" when the list was collected; otherwise log.Fatalf ended the run
getFileInfoList(filePaths, backwardsFlag, fsys) ==
    LET bad == {i \in 1..Len(filePaths) :
                   ~Exists(fsys, filePaths[i]) \/ IsDir(fsys, filePaths[i])}
        list == [i \in 1..Len(filePaths) |-> [name |-> Base(filePaths[i])]]
    IN  IF Len(filePaths) = 0 THEN [fatal |-> "no files provided", list |-> <<>>]
        ELSE IF bad # {}
             THEN [fatal |-> IF Exists(fsys, filePaths[Min(bad)])
                             THEN "file is a directory" ELSE "argument is not a file",
                   list |-> <<>>]
        ELSE [fatal |-> "", list |-> IF backwardsFlag THEN Reverse(list) ELSE list]

NoResult == OpNil(FALSE, <<>>, <<>>)

\* process up to its dispatch loop, got being what getFileInfoList returned
Collected(argCount, got) ==
    IF argCount > Len(c.args)
    THEN /\ pc' = "done"
         /\ ret' = "not enough arguments"
         /\ fileInfoList' = fileInfoList
    ELSE IF got.fatal # ""
    THEN /\ pc' = "fatal"
         /\ ret' = got.fatal
         /\ fileInfoList' = fileInfoList
    ELSE /\ pc' = "loop"
         /\ ret' = ret
         /\ fileInfoList' = got.list

Process ==
    /\ pc = "start"
    /\ Collected(ArgCount(c.cmd),
                 getFileInfoList(Tail_(c.args, ArgCount(c.cmd) + 1), c.backwards, fs))
    /\ UNCHANGED <<fs, c, idx, dispatched, res>>

\* the bookkeeping of one loop iteration, r being what fn returned for fi
Dispatched(fi, r) ==
    /\ res' = r
    /\ fs' = r.fs
    /\ dispatched' = Append(dispatched, [name |-> fi.name, out |-> r.out])
    /\ idx' = idx + 1
    /\ pc' = IF r.out = "panic" THEN "panic"
             ELSE IF idx + 1 = Len(fileInfoList) THEN "done" ELSE "loop"
    /\ ret' = IF r.out # "panic" /\ idx + 1 = Len(fileInfoList) THEN "nil" ELSE ret

\* one iteration of the dispatch loop of process: fn on the next file
Dispatch ==
    /\ pc = "loop"
    /\ idx < Len(fileInfoList)
    /\ Dispatched(fileInfoList[idx + 1],
                  Fn(c, SubSeq(c.args, 1, ArgCount(c.cmd)), fileInfoList[idx + 1], c.dryRun, fs))
    /\ UNCHANGED <<c, fileInfoList>>

Next == Process \/ Dispatch

(***************************************************************************)
(* The runs checked: every command on batches of up to MaxFiles arguments  *)
(* drawn from two files of the directory, a directory and a missing name,  *)
(* with the names the command would produce free or already taken.         *)
(***************************************************************************)
nDoc == <<"f", "o", "o", "-", "1", "0", "8", "0", "p", "-", "2", "f", "f", "c", ".", "m", "p", "4">>
nBar == <<"f", "o", "o", "-", "1", "b", "a", "r", "-", "2", "b", "a", "z", ".", "t", "x", "t">>
nBar1 == <<"f", "o", "o", "-", "1", "b", "a", "r", ".", "t", "x", "t">>
nOne == <<"1", ".", "t", "x", "t">>
nFooFoo == <<"f", "o", "o", "-", "f", "o", "o", ".", "t", "x", "t">>
nDate == <<"v", "-", "2", "0", "2", "4", "0", "1", "3", "1", ".", "m", "p", "4">>
nDir == <<"d", "i", "r">>
nMissing == <<"g", "o", "n", "e", ".", "t", "x", "t">>

tPrefix == <<"p", "r", "e", "f", "i", "x">>
tFoo == <<"f", "o", "o">>
tBar == <<"b", "a", "r">>
tTwo == <<"2">>
tOneThree == <<"1", ",", "3">>
tNaN == <<"x">>

\* the two files of the directory the command is tried on
Pool(cmd) ==
    CASE cmd = "add-number" -> <<nDoc, nBar1>>
      [] cmd = "replace" -> <<nFooFoo, nOne>>
      [] cmd = "prefix-date" -> <<nDate, nOne>>
      [] cmd \in {"delete-parts", "delete-regexp", "insert-before", "merge-parts", "prefix",
                  "suffix"} -> <<nBar, nOne>>

SeqsUpTo(S, n) == UNION {[1..k -> S] : k \in 0..n}

Batches(cmd) == SeqsUpTo({Pool(cmd)[1], Pool(cmd)[2], nDir, nMissing}, MaxFiles)

\* flags a command does not declare read as their zero value
Flags0 == [cmd |-> "", args |-> <<>>, backwards |-> FALSE, dryRun |-> FALSE, force |-> FALSE,
           skipParts |-> 0, skipFinds |-> 0, regexp |-> <<>>, regexpGroup |-> 0,
           maxCount |-> 0, fromBack |-> FALSE, deleteText |-> <<>>,
           skipDashPrefix |-> FALSE, skipDuplicate |-> FALSE]

\* the command-specific part of the command line: texts and command flags
CommandLines(cmd) ==
    CASE cmd = "add-number" ->
            {[Flags0 EXCEPT !.args = <<n>>, !.regexp = re[1], !.regexpGroup = re[2],
                            !.skipFinds = s, !.maxCount = mc] :
                n \in {tTwo, tNaN}, re \in {<<<<>>, 0>>, <<ReResolution, 0>>, <<ReResolution, 1>>},
                s \in 0..MaxSkip, mc \in {0, 1}}
      [] cmd = "delete-parts" ->
            {[Flags0 EXCEPT !.args = <<l>>, !.fromBack = fb] :
                l \in {tOneThree, tTwo, tNaN}, fb \in BOOLEAN}
      [] cmd = "delete-regexp" ->
            {[Flags0 EXCEPT !.regexp = re, !.regexpGroup = g, !.maxCount = mc] :
                re \in {<<>>, ReMalformed}, g \in {0, 1}, mc \in {0, 1}}
      [] cmd = "insert-before" ->
            {[Flags0 EXCEPT !.args = <<tFoo>>, !.regexp = re, !.skipDashPrefix = sdp,
                            !.skipDuplicate = sd] :
                re \in {<<>>, ReMalformed}, sdp \in BOOLEAN, sd \in BOOLEAN}
      [] cmd = "merge-parts" ->
            {[Flags0 EXCEPT !.regexp = re, !.deleteText = dt] :
                re \in {<<>>, ReMalformed, <<"(", "(">> \o ReMergeDefault \o <<")", ")">>},
                dt \in {<<>>, tBar}}
      [] cmd = "prefix" ->
            {[Flags0 EXCEPT !.args = <<tPrefix>>, !.skipParts = s] : s \in 0..MaxSkip}
      [] cmd = "suffix" ->
            {[Flags0 EXCEPT !.args = <<tPrefix>>, !.skipParts = s] : s \in 0..MaxSkip}
      [] cmd = "replace" ->
            {[Flags0 EXCEPT !.args = <<tFoo, tBar>>, !.skipFinds = s] : s \in 0..MaxSkip}
      [] cmd = "prefix-date" -> {Flags0}

\* the command line of cmd with texts and flags cl on the file arguments b
Invocation(cmd, cl, b, bw, dr, fo) ==
    [cl EXCEPT !.cmd = cmd, !.args = cl.args \o b, !.backwards = bw, !.dryRun = dr,
               !.force = fo]

\* the name the command would give file n of its pool (n itself when none)
Planned(n, r) == IF r.planned THEN r.newPath ELSE n

Target(ctx, n) ==
    IF Len(ctx.args) < ArgCount(ctx.cmd) THEN n
    ELSE Planned(n, Fn(ctx, SubSeq(ctx.args, 1, ArgCount(ctx.cmd)), [name |-> n], TRUE, <<>>))

\* a directory with the two files of the pool, a directory and the names in
\* extra (t1 before t2)
DirectoryOf(p1, p2, t1, extra) ==
    [n \in {p1, p2, nDir} \cup extra |->
        IF n = p1 THEN "f1"
        ELSE IF n = p2 THEN "f2"
        ELSE IF n = nDir THEN "d1"
        ELSE IF n = t1 THEN "f3" ELSE "f4"]

\* the directories a run may start in: every name the command would produce
\* is free, or every such name is taken by another file
Directories(p1, p2, t1, t2) == {DirectoryOf(p1, p2, t1, extra) : extra \in {{}, {t1, t2}}}

\* a command with its texts and files, or the bare command
Init ==
    /\ \E cmd \in Commands :
          \/ \E cl \in CommandLines(cmd), b \in Batches(cmd), bw \in BOOLEAN,
                dr \in BOOLEAN, fo \in BOOLEAN :
                c = Invocation(cmd, cl, b, bw, dr, fo)
          \/ c = [Flags0 EXCEPT !.cmd = cmd]
    /\ fs \in Directories(Pool(c.cmd)[1], Pool(c.cmd)[2], Target(c, Pool(c.cmd)[1]),
                          Target(c, Pool(c.cmd)[2]))
    /\ pc = "start"
    /\ fileInfoList = <<>>
    /\ idx = 0
    /\ dispatched = <<>>
    /\ res = NoResult
    /\ ret = ""

Spec == Init /\ [][Next]_vars

(***************************************************************************)
(* safeRename on its own, as Test_safeRename calls it: every directory     *)
(* over three names, each absent, a file or a directory, and every pair    *)
(* of paths among them.                                                    *)
(***************************************************************************)
RenameNames == <<nOne, nBar, nDir>>

\* kinds[i] says what is stored under RenameNames[i]
DirectoryOfKinds(kinds) ==
    [n \in {RenameNames[i] : i \in {j \in 1..Len(RenameNames) : kinds[j] # "none"}} |->
        LET i == CHOOSE j \in 1..Len(RenameNames) : RenameNames[j] = n
        IN  IF kinds[i] = "dir" THEN <<"d1", "d2", "d3">>[i] ELSE <<"f1", "f2", "f3">>[i]]

InitRename ==
    /\ c \in [cmd : {"safeRename"}, oldPath : {nOne, nBar, nDir},
              newPath : {nOne, nBar, nDir}, force : BOOLEAN]
    /\ fs \in {DirectoryOfKinds(k) : k \in [1..Len(RenameNames) -> {"none", "file", "dir"}]}
    /\ pc = "call"
    /\ fileInfoList = <<>>
    /\ idx = 0
    /\ dispatched = <<>>
    /\ res = NoResult
    /\ ret = ""

CallSafeRename ==
    /\ pc = "call"
    /\ c.cmd = "safeRename"
    /\ res' = OpRename(c.oldPath, c.newPath, c.force, fs)
    /\ fs' = res'.fs
    /\ ret' = res'.err
    /\ pc' = "returned"
    /\ UNCHANGED <<c, fileInfoList, idx, dispatched>>

NextRename == CallSafeRename

SpecRename == InitRename /\ [][NextRename]_vars

IsFile(fsys, name) == Exists(fsys, name) /\ ~IsDir(fsys, name)

\* fsys after oldPath's entry has been moved to newPath
Moved(fsys, oldPath, newPath) ==
    [n \in (DOMAIN fsys \ {oldPath}) \cup {newPath} |->
        IF n = newPath THEN fsys[oldPath] ELSE fsys[n]]

(***************************************************************************)
(* C2: for oldPath # newPath safeRename calls the rename exactly when the  *)
(* destination does not exist or forceOverwrite is set, and for a source   *)
(* file and a destination that is no directory the file is then moved; an  *)
(* existing destination without forceOverwrite leaves the directory as it  *)
(* was and returns nil.                                                    *)
(***************************************************************************)
C2_RenameIffFreeOrForced ==
    [][c.oldPath # c.newPath =>
        /\ (res'.called # <<>>) <=> (~Exists(fs, c.newPath) \/ c.force)
        /\ (IsFile(fs, c.oldPath) /\ ~IsDir(fs, c.newPath)) =>
              /\ (fs' # fs) <=> (~Exists(fs, c.newPath) \/ c.force)
              /\ fs' # fs => (fs' = Moved(fs, c.oldPath, c.newPath) /\ ret' = "")
        /\ (Exists(fs, c.newPath) /\ ~c.force) => (fs' = fs /\ ret' = "")]_vars

\* a skipped rename: both files are still there
C2_Witness ==
    /\ pc = "returned"
    /\ c.oldPath # c.newPath
    /\ ~c.force
    /\ IsFile(fs, c.oldPath)
    /\ IsFile(fs, c.newPath)
    /\ res.called = <<>>
    /\ ret = ""

(***************************************************************************)
(* C3: safeRename with oldPath = newPath never calls the rename and        *)
(* returns nil, with or without forceOverwrite, whether or not the path    *)
(* exists; the directory is left as it was.                                *)
(***************************************************************************)
C3_SamePathNoRename ==
    [][c.oldPath = c.newPath => (res'.called = <<>> /\ ret' = "" /\ fs' = fs)]_vars

\* the forced call on a path that does not exist
C3_Witness ==
    /\ pc = "returned"
    /\ c.oldPath = c.newPath
    /\ c.force
    /\ ~Exists(fs, c.oldPath)
    /\ ret = ""

(***************************************************************************)
(* The operations called directly with their own parameters, as the tests  *)
(* of the package call them: one call on one file of the directory.        *)
(***************************************************************************)
\* the parameter sets of a command's operation; deleteRegexp takes a
\* skipFinds no command line gives it
CallLines(cmd) ==
    IF cmd = "delete-regexp"
    THEN {[cl EXCEPT !.skipFinds = s] : cl \in CommandLines(cmd), s \in 0..MaxSkip}
    ELSE {cl \in CommandLines(cmd) : cl.args = <<>> \/ cl.args[1] # tNaN}

\* the numbers of a comma-separated list
IntList(s) == [k \in 1..Len(Split(s, <<",">>)) |-> ParseInt(Split(s, <<",">>)[k]).val]

\* the operation of ctx.cmd on fi
Op(ctx, fi, dryRun, fsys) ==
    CASE ctx.cmd = "add-number" ->
            addNumber(fi, ctx.regexp, ParseInt(ctx.args[1]).val, ctx.regexpGroup,
                      ctx.skipFinds, ctx.maxCount, ctx.force, dryRun, fsys)
      [] ctx.cmd = "delete-parts" ->
            deleteParts(fi, IntList(ctx.args[1]), ctx.fromBack, ctx.force, dryRun, fsys)
      [] ctx.cmd = "delete-regexp" ->
            deleteRegexp(fi, ctx.regexp, ctx.regexpGroup, ctx.skipFinds, ctx.maxCount,
                         ctx.force, dryRun, fsys)
      [] ctx.cmd = "insert-before" ->
            insertBefore(fi, ctx.regexp, ctx.args[1], ctx.skipDuplicate, ctx.skipDashPrefix,
                         ctx.force, dryRun, fsys)
      [] ctx.cmd = "merge-parts" ->
            mergeParts(fi, ctx.regexp, ctx.deleteText, ctx.force, dryRun, fsys)
      [] ctx.cmd = "prefix" ->
            prefix(fi, ctx.args[1], ctx.skipParts, ctx.force, dryRun, fsys)
      [] ctx.cmd = "replace" ->
            replace(fi, ctx.args[1], ctx.args[2], ctx.skipFinds, ctx.force, dryRun, fsys)
      [] ctx.cmd = "suffix" ->
            suffix(fi, ctx.args[1], ctx.skipParts, ctx.force, dryRun, fsys)
      [] ctx.cmd = "prefix-date" -> prefixDate(fi, ctx.force, dryRun, fsys)

\* the name the operation would give file n
CallTarget(ctx, n) == Planned(n, Op(ctx, [name |-> n], TRUE, <<>>))

InitCall ==
    /\ \E cmd \in Commands, dr \in BOOLEAN, fo \in BOOLEAN :
          \E cl \in CallLines(cmd) : c = [cl EXCEPT !.cmd = cmd, !.dryRun = dr, !.force = fo]
    /\ fs \in Directories(Pool(c.cmd)[1], Pool(c.cmd)[2], CallTarget(c, Pool(c.cmd)[1]),
                          CallTarget(c, Pool(c.cmd)[2]))
    /\ fileInfoList \in {<<[name |-> Pool(c.cmd)[i]]>> : i \in {1, 2}}
    /\ pc = "call"
    /\ idx = 0
    /\ dispatched = <<>>
    /\ res = NoResult
    /\ ret = ""

CallOp ==
    /\ pc = "call"
    /\ c.cmd \in Commands
    /\ Dispatched(fileInfoList[1], Op(c, fileInfoList[1], c.dryRun, fs))
    /\ UNCHANGED <<c, fileInfoList>>

NextCall == CallOp

SpecCall == InitCall /\ [][NextCall]_vars

(***************************************************************************)
(* C1: a call of an operation with dryRun set renames nothing, with or     *)
(* without forceOverwrite: the rename is never called and the directory    *)
(* after the call is the directory before it.                              *)
(***************************************************************************)
C1_DryRunRenamesNothing ==
    [][c.dryRun => (res'.called = <<>> /\ fs' = fs /\ DOMAIN fs' = DOMAIN fs)]_vars

\* a forced dry run that planned a new name, one another file already has
C1_Witness ==
    /\ pc = "done"
    /\ c.dryRun
    /\ c.force
    /\ res.out = "nil"
    /\ res.planned
    /\ res.newPath # fileInfoList[1].name
    /\ Exists(fs, res.newPath)
    /\ Exists(fs, fileInfoList[1].name)

(***************************************************************************)
(* Claims about the batch driver, over the runs of Spec.                   *)
(***************************************************************************)
\* the file arguments of a command line, and the order process is to
\* dispatch them in
FileArgs(ctx) == Tail_(ctx.args, ArgCount(ctx.cmd) + 1)

DispatchOrder(ctx) ==
    IF ctx.backwards THEN Reverse([i \in 1..Len(FileArgs(ctx)) |-> Base(FileArgs(ctx)[i])])
    ELSE [i \in 1..Len(FileArgs(ctx)) |-> Base(FileArgs(ctx)[i])]

\* a command line with its texts whose file list is empty or names
\* something that is missing or a directory
BadBatch(ctx, fsys) ==
    /\ Len(ctx.args) >= ArgCount(ctx.cmd)
    /\ \/ FileArgs(ctx) = <<>>
       \/ \E i \in 1..Len(FileArgs(ctx)) :
            ~Exists(fsys, FileArgs(ctx)[i]) \/ IsDir(fsys, FileArgs(ctx)[i])

(***************************************************************************)
(* C4: process calls the operation exactly once for every collected file,  *)
(* in argument order, or in reverse with the backwards flag; an error of   *)
(* the operation does not stop the batch, and process returns nil.         *)
(***************************************************************************)
C4_DispatchesEveryFileOnce ==
    pc \in {"loop", "done", "panic"} =>
        /\ [i \in 1..Len(dispatched) |-> dispatched[i].name]
              = SubSeq(DispatchOrder(c), 1, Len(dispatched))
        /\ (pc # "loop" /\ Len(c.args) >= ArgCount(c.cmd)) =>
              (Len(dispatched) = Len(FileArgs(c)) /\ ret = "nil")

(***************************************************************************)
(* C5: with an empty file list, or an argument that cannot be stat-ed or   *)
(* is a directory, the run ends in the fatal exit of the collection: the   *)
(* operation is never dispatched, no file is renamed, and nothing happens  *)
(* after the fatal exit.                                                   *)
(***************************************************************************)
C5_BadArgumentStopsBeforeDispatch ==
    [][/\ pc # "fatal"
       /\ (pc = "start" /\ BadBatch(c, fs)) =>
             (pc' = "fatal" /\ ret' # "" /\ fs' = fs /\ dispatched' = <<>>
              /\ fileInfoList' = <<>> /\ res' = NoResult)]_vars

\* a real run stopped by its second argument, the first being a file
C5_Witness ==
    /\ pc = "fatal"
    /\ ~c.dryRun
    /\ Len(FileArgs(c)) = 2
    /\ IsFile(fs, FileArgs(c)[1])
    /\ ~IsFile(fs, FileArgs(c)[2])
    /\ dispatched = <<>>
    /\ ret # ""

\* the skip count of the command line is larger than what the file has:
\* segments for prefix, matches (there being some) for add-number
BadSkip(ctx, name) ==
    \/ /\ ctx.cmd = "prefix"
       /\ ctx.skipParts > Len(Split(SplitExt(name).basePath, separator))
    \/ /\ ctx.cmd = "add-number"
       /\ ParseInt(ctx.args[1]).err = ""
       /\ Len(FindAllStringSubmatch(
                 Compile(IF ctx.regexp = <<>> THEN ReAddNumberDefault ELSE ctx.regexp).re,
                 SplitExt(name).basePath)) \in 1..(ctx.skipFinds - 1)

(***************************************************************************)
(* C6: a skip count larger than what the file has (prefix: segments;       *)
(* add-number: matches) makes the operation return an error for that file, *)
(* never a crash, and the batch goes on.                                   *)
(***************************************************************************)
C6_BadSkipIsAnError ==
    \A i \in 1..Len(dispatched) :
        BadSkip(c, dispatched[i].name) => (dispatched[i].out = "err" /\ pc # "panic")

(***************************************************************************)
(* C7: insert-before called as "[text to insert] [files...]" reads the     *)
(* text and inserts it into the name of every file, with no access out of  *)
(* the range of its arguments.                                             *)
(***************************************************************************)
C7_InsertBeforeReadsItsText ==
    (c.cmd = "insert-before" /\ idx > 0) =>
        /\ res.out # "panic"
        /\ pc # "panic"
        /\ res.planned => Contains(res.newPath, c.args[1])

(***************************************************************************)
(* Claims about addNumber.  A base name is read as its numbers, the        *)
(* values of the digits of the matches of -(\d+)[a-z]+ from left to right, *)
(* and its frame, the name with the digits of every match cut out.         *)
(***************************************************************************)
NumberMatches(s) == [i \in 1..Len(s) |-> MatchAt(Compile(ReAddNumberDefault).re, s, i)]

ValuesOf(subs) == [j \in 1..Len(subs) |-> DigitsValue(subs[j][1])]

Values(s) == ValuesOf(Leftmost(NumberMatches(s), 1))

RECURSIVE FrameFrom(_, _, _)
FrameFrom(s, at, from) ==
    LET hits == {i \in from..Len(at) : at[i].ok}
    IN  IF hits = {} THEN SubSeq(s, from, Len(s))
        ELSE SubSeq(s, from, Min(hits)) \o <<"#">>
             \o SubSeq(s, Min(hits) + 1 + Len(at[Min(hits)].sub[1]), at[Min(hits)].end - 1)
             \o FrameFrom(s, at, at[Min(hits)].end)

Frame(s) == FrameFrom(s, NumberMatches(s), 1)

\* new has the extension, the frame and as many numbers as old, and the
\* numbers whose index is not in K are those of old
SameOutside(old, new, K) ==
    /\ SplitExt(new).ext = SplitExt(old).ext
    /\ Frame(SplitExt(new).basePath) = Frame(SplitExt(old).basePath)
    /\ Len(Values(SplitExt(new).basePath)) = Len(Values(SplitExt(old).basePath))
    /\ \A j \in (1..Len(Values(SplitExt(old).basePath))) \ K :
          Values(SplitExt(new).basePath)[j] = Values(SplitExt(old).basePath)[j]

\* new is old with n added to the numbers whose index is in K and with
\* nothing else changed
AddedTo(old, new, K, n) ==
    /\ SameOutside(old, new, K)
    /\ \A j \in K :
          Values(SplitExt(new).basePath)[j] = Values(SplitExt(old).basePath)[j] + n

\* new is old with the numbers whose index is in K changed and with nothing
\* else changed
ChangedAt(old, new, K) ==
    /\ SameOutside(old, new, K)
    /\ \A j \in K :
          Values(SplitExt(new).basePath)[j] # Values(SplitExt(old).basePath)[j]

(***************************************************************************)
(* C8: with the flags of the command line at their defaults (no regexp,    *)
(* skip-finds 0, max-count 1) add-number N adds N to the last number of    *)
(* the name: "add-number 2" renames foo-1080p-2ffc.mp4 to                  *)
(* foo-1080p-4ffc.mp4.                                                     *)
(***************************************************************************)
C8_DefaultAddsToLastNumber ==
    (/\ c.cmd = "add-number"
     /\ idx > 0
     /\ c.regexp = <<>> /\ c.skipFinds = 0 /\ c.maxCount = 1
     /\ ParseInt(c.args[1]).err = "") =>
        /\ res.planned
        /\ AddedTo(dispatched[idx].name, res.newPath,
                   {Len(Values(SplitExt(dispatched[idx].name).basePath))},
                   ParseInt(c.args[1]).val)

(***************************************************************************)
(* addNumber on every base name of up to MaxNameLen characters of a dash,  *)
(* two digits and a letter, the file being alone in its directory.         *)
(***************************************************************************)
NameChars == {"-", "0", "1", "a"}

Names == UNION {[1..k -> NameChars] : k \in 1..MaxNameLen}

InitAddNumber ==
    /\ c \in {[Flags0 EXCEPT !.cmd = "add-number", !.args = <<Itoa(n)>>, !.skipFinds = s,
                             !.maxCount = mc] :
                 n \in 1..MaxAdd, s \in 0..MaxSkip, mc \in {0, 1}}
    /\ fileInfoList \in {<<[name |-> n]>> : n \in Names}
    /\ fs = [n \in {fileInfoList[1].name} |-> "f1"]
    /\ pc = "call"
    /\ idx = 0
    /\ dispatched = <<>>
    /\ res = NoResult
    /\ ret = ""

SpecAddNumber == InitAddNumber /\ [][NextCall]_vars

(***************************************************************************)
(* C9: with maxCount 1 and skipFinds k smaller than the number of matches  *)
(* addNumber changes the (k+1)-th match from the left, and no other match  *)
(* and no other character.                                                 *)
(***************************************************************************)
C9_ChangesTheSkippedToMatch ==
    (/\ pc = "done"
     /\ c.maxCount = 1
     /\ c.skipFinds < Len(Values(fileInfoList[1].name))) =>
        /\ res.planned
        /\ ChangedAt(fileInfoList[1].name, res.newPath, {c.skipFinds + 1})

(***************************************************************************)
(* C10: with skipFinds 0 and maxCount 0 addNumber changes every match      *)
(* once: each number of the new name is the old number plus numberToAdd,   *)
(* whatever the base name and the numbers.                                 *)
(***************************************************************************)
C10_AddsToEveryNumber ==
    (/\ pc = "done"
     /\ c.maxCount = 0
     /\ c.skipFinds = 0
     /\ Values(fileInfoList[1].name) # <<>>) =>
        /\ res.planned
        /\ AddedTo(fileInfoList[1].name, res.newPath,
                   1..Len(Values(fileInfoList[1].name)), ParseInt(c.args[1]).val)

(***************************************************************************)
(* One operation called on every base name of Names and on the names of    *)
(* the tests of the package, the file being alone in its directory.        *)
(***************************************************************************)
nQuix == <<"f", "o", "o", "-", "1", "b", "a", "r", "-", "2", "b", "a", "z", "-", "3", "q", "u", "i", "x", ".", "t", "x", "t">>
nFoo == <<"f", "o", "o", ".", "t", "x", "t">>

nQuiix == <<"f", "o", "o", "-", "b", "a", "r", "-", "b", "a", "z", "-", "q", "u", "i", "x", "-",
            "q", "u", "i", "i", "x", ".", "t", "x", "t">>

\* a name that is an extension only: its base name is empty
nDot == <<".", "t", "x", "t">>

Samples == {nBar, nBar1, nQuix, nQuiix, nFoo, nFooFoo, nOne, nDot}

\* a call described by one of lines, on one file of a directory of its own
InitNames(lines) ==
    /\ c \in lines
    /\ fileInfoList \in {<<[name |-> n]>> : n \in Names \cup Samples}
    /\ fs = [n \in {fileInfoList[1].name} |-> "f1"]
    /\ pc = "call"
    /\ idx = 0
    /\ dispatched = <<>>
    /\ res = NoResult
    /\ ret = ""

\* the file the call is on, its base name and its extension
TheName == fileInfoList[1].name
TheBase == SplitExt(fileInfoList[1].name).basePath
TheExt == SplitExt(fileInfoList[1].name).ext

\* the call returned nil and renamed the file to newPath
RenamedTo(newPath) ==
    /\ res.out = "nil"
    /\ res.planned
    /\ res.newPath = newPath
    /\ (~c.dryRun /\ newPath # TheName) => (Exists(fs, newPath) /\ ~Exists(fs, TheName))

\* the call renamed nothing
NotRenamed == res.called = <<>> /\ DOMAIN fs = {TheName}

(***************************************************************************)
(* mergeParts with its default expression and no text to delete.           *)
(***************************************************************************)
MergeLines == {[Flags0 EXCEPT !.cmd = "merge-parts", !.dryRun = dr] : dr \in BOOLEAN}

InitMergeParts == InitNames(MergeLines)

SpecMergeParts == InitMergeParts /\ [][NextCall]_vars

\* the descriptions of a base name: the matches of -(\d{1,2})(([a-z]+)(-[a-z]+\d*)*)
MergeMatches(s) ==
    [i \in 1..Len(s) |-> MatchAt(Compile(ReMergeHead \o ReMergeDefault \o ReMergeTail).re, s, i)]

Descriptions(s) == Leftmost(MergeMatches(s), 1)

RECURSIVE SumOf(_, _)
SumOf(subs, i) == IF i > Len(subs) THEN 0 ELSE DigitsValue(subs[i][1]) + SumOf(subs, i + 1)

LabelsOf(subs) == Join([i \in 1..Len(subs) |-> subs[i][2]], <<"-">>)

\* the one description that stands for all of subs
MergedOf(subs) == <<"-">> \o Itoa(SumOf(subs, 1)) \o LabelsOf(subs)

\* s from position from on, with the matches cut out
RECURSIVE Unmatched(_, _, _)
Unmatched(s, at, from) ==
    LET hits == {i \in from..Len(at) : at[i].ok}
    IN  IF hits = {} THEN SubSeq(s, from, Len(s))
        ELSE SubSeq(s, from, Min(hits) - 1) \o Unmatched(s, at, at[Min(hits)].end)

\* where the first match of at begins
FirstMatch(at) == Min({i \in 1..Len(at) : at[i].ok})

\* the merged description in the place of the first description, the other
\* descriptions cut out
MergedInPlace(s, at) ==
    SubSeq(s, 1, FirstMatch(at) - 1) \o MergedOf(Leftmost(at, 1))
        \o Unmatched(s, at, at[FirstMatch(at)].end)

\* the merged description after what is left when the descriptions are cut out
MergedAtEnd(s, at) == Unmatched(s, at, 1) \o MergedOf(Leftmost(at, 1))

(***************************************************************************)
(* C11: mergeParts replaces the matched descriptions by one description:   *)
(* the sum of all matched numbers followed by the labels of the matches in *)
(* their order, joined by "-"; the descriptions themselves are gone and    *)
(* the rest of the name is kept (foo-1bar-2baz-3quix gives                 *)
(* foo-6bar-baz-quix).                                                     *)
(***************************************************************************)
C11_MergesIntoOneDescription ==
    (pc = "done" /\ Descriptions(TheBase) # <<>>) =>
        \/ RenamedTo(MergedInPlace(TheBase, MergeMatches(TheBase)) \o TheExt)
        \/ RenamedTo(MergedAtEnd(TheBase, MergeMatches(TheBase)) \o TheExt)

(***************************************************************************)
(* C12: when the base name has no description matching the merge pattern,  *)
(* mergeParts returns nil and renames nothing.                             *)
(***************************************************************************)
C12_NothingToMergeIsNoOp ==
    (pc = "done" /\ Descriptions(TheBase) = <<>>) => (res.out = "nil" /\ NotRenamed)

(***************************************************************************)
(* deleteRegexp with its default expression -\d+[a-z]+.                    *)
(***************************************************************************)
DeleteLines ==
    {[Flags0 EXCEPT !.cmd = "delete-regexp", !.skipFinds = s, !.maxCount = mc] :
        s \in 0..MaxSkip, mc \in 0..MaxCount}

InitDeleteRegexp == InitNames(DeleteLines)

SpecDeleteRegexp == InitDeleteRegexp /\ [][NextCall]_vars

DeleteMatches(s) == [i \in 1..Len(s) |-> MatchAt(Compile(ReDeleteDefault).re, s, i)]

\* the indices of the matches to act on: after the first skip of n matches,
\* at most count of them, all of them when count is 0
Window(skip, count, n) ==
    {j \in 1..n : j > skip /\ (count = 0 \/ j <= skip + count)}

\* s from position from on, with the matches whose index is in K cut out;
\* j is the index of the next match
RECURSIVE CutOut(_, _, _, _, _)
CutOut(s, at, from, j, K) ==
    LET hits == {i \in from..Len(at) : at[i].ok}
    IN  IF hits = {} THEN SubSeq(s, from, Len(s))
        ELSE SubSeq(s, from, IF j \in K THEN Min(hits) - 1 ELSE at[Min(hits)].end - 1)
             \o CutOut(s, at, at[Min(hits)].end, j + 1, K)

\* the name deleteRegexp is to give the file: the matches of the window cut
\* out at their positions (empty when nothing is left: then no rename can
\* give it)
WindowCut ==
    CutOut(TheBase, DeleteMatches(TheBase), 1, 1,
           Window(c.skipFinds, c.maxCount, Len(Leftmost(DeleteMatches(TheBase), 1)))) \o TheExt

(***************************************************************************)
(* C13: deleteRegexp leaves the first skipFinds matches in place and       *)
(* deletes the matches after them, at most maxCount of them, all of them   *)
(* when maxCount is 0; the matches outside that window and the text that   *)
(* is no match stay as they are, in their order.                           *)
(***************************************************************************)
C13_DeletesTheWindow ==
    (pc = "done" /\ Leftmost(DeleteMatches(TheBase), 1) # <<>>) =>
        /\ res.planned
        /\ res.newPath = WindowCut
        /\ WindowCut # <<>> => RenamedTo(WindowCut)

(***************************************************************************)
(* deleteRegexp and addNumber with their default expressions, in dry-run   *)
(* mode and otherwise.                                                     *)
(***************************************************************************)
MatchingLines ==
    {[Flags0 EXCEPT !.cmd = "delete-regexp", !.skipFinds = s, !.maxCount = 1, !.dryRun = dr] :
        s \in {0, 1}, dr \in BOOLEAN}
    \cup {[Flags0 EXCEPT !.cmd = "add-number", !.args = <<tTwo>>, !.skipFinds = s,
                         !.maxCount = 1, !.dryRun = dr] :
             s \in {0, 1}, dr \in BOOLEAN}

InitMatching == InitNames(MatchingLines)

SpecMatching == InitMatching /\ [][NextCall]_vars

\* the matches of the default expression of the operation called
MatchesOfCall ==
    IF c.cmd = "add-number" THEN Leftmost(NumberMatches(TheBase), 1)
    ELSE Leftmost(DeleteMatches(TheBase), 1)

(***************************************************************************)
(* C14: when the pattern has no match in the base name, deleteRegexp and   *)
(* addNumber return the error "no matches" and do not rename the file, in  *)
(* dry-run mode and otherwise.                                             *)
(***************************************************************************)
C14_NoMatchIsAnError ==
    (pc # "call" /\ MatchesOfCall = <<>>) =>
        (pc = "done" /\ res.out = "err" /\ res.err = "no matches" /\ NotRenamed)

\* a real call of either operation that ended with the error
C14_Witness ==
    /\ pc = "done"
    /\ ~c.dryRun
    /\ c.skipFinds = 1
    /\ MatchesOfCall = <<>>
    /\ res.err = "no matches"
    /\ Exists(fs, TheName)

(***************************************************************************)
(* insertBefore with its default expression \d+[a-z]+.                     *)
(***************************************************************************)
tA == <<"a">>

InsertLines ==
    {[Flags0 EXCEPT !.cmd = "insert-before", !.args = <<txt>>, !.skipDuplicate = sd,
                    !.skipDashPrefix = sdp] :
        txt \in {tA, tFoo}, sd \in BOOLEAN, sdp \in BOOLEAN}

InitInsertBefore == InitNames(InsertLines)

SpecInsertBefore == InitInsertBefore /\ [][NextCall]_vars

\* the matches insertBefore looks for: the expression in a group, after a
\* dash unless skipDashPrefix is set
InsertMatches(s, skipDashPrefix) ==
    [i \in 1..Len(s) |->
        MatchAt(Compile((IF skipDashPrefix THEN <<>> ELSE <<"-">>)
                        \o <<"(">> \o ReInsertDefault \o <<")">>).re, s, i)]

\* where the last match of a left-to-right scan begins (last when none follows)
RECURSIVE LastStart(_, _, _)
LastStart(at, from, last) ==
    LET hits == {i \in from..Len(at) : at[i].ok}
    IN  IF hits = {} THEN last ELSE LastStart(at, at[Min(hits)].end, Min(hits))

\* s with text put in before position p
InsertedAt(s, p, text) == SubSeq(s, 1, p - 1) \o text \o SubSeq(s, p, Len(s))

\* the call is one the duplicate rule ends before anything is looked for
IsDuplicate == c.skipDuplicate /\ Contains(TheName, c.args[1])

(***************************************************************************)
(* C15: when the pattern matches at least once, insertBefore puts          *)
(* insertText followed by "-" immediately before the text of the last      *)
(* match and changes nothing else in the name (foo-1bar with FOO gives     *)
(* foo-FOO-1bar).                                                          *)
(***************************************************************************)
C15_InsertsBeforeLastMatch ==
    (/\ pc = "done"
     /\ ~IsDuplicate
     /\ LastStart(InsertMatches(TheBase, c.skipDashPrefix), 1, 0) > 0) =>
        RenamedTo(InsertedAt(TheBase,
                             LastStart(InsertMatches(TheBase, c.skipDashPrefix), 1, 0)
                                 + (IF c.skipDashPrefix THEN 0 ELSE 1),
                             c.args[1] \o <<"-">>) \o TheExt)

InsertedSomewhere(new, text) ==
    \/ \E p \in 1..(Len(TheBase) + 1) : new = InsertedAt(TheBase, p, text \o <<"-">>) \o TheExt
    \/ new = TheBase \o <<"-">> \o text \o TheExt

(***************************************************************************)
(* C17: with skipDuplicate set, insertBefore on a file whose name already  *)
(* contains insertText returns nil and does not rename the file; with      *)
(* skipDuplicate unset the text is inserted again.                         *)
(***************************************************************************)
C17_SkipDuplicate ==
    (pc # "call" /\ Contains(TheName, c.args[1])) =>
        /\ pc = "done"
        /\ res.out = "nil"
        /\ c.skipDuplicate => (NotRenamed /\ ~res.planned)
        /\ ~c.skipDuplicate =>
              (/\ res.planned
               /\ InsertedSomewhere(res.newPath, c.args[1])
               /\ Exists(fs, res.newPath)
               /\ ~Exists(fs, TheName))

\* a name with the text that was left alone, where a match was there to
\* insert before
C17_Witness ==
    /\ pc = "done"
    /\ c.skipDuplicate
    /\ Contains(TheName, c.args[1])
    /\ LastStart(InsertMatches(TheBase, c.skipDashPrefix), 1, 0) > 0
    /\ res.out = "nil"
    /\ Exists(fs, TheName)

(***************************************************************************)
(* replace.                                                                *)
(***************************************************************************)
tAA == <<"a", "a">>

ReplaceLines ==
    {[Flags0 EXCEPT !.cmd = "replace", !.args = p, !.skipFinds = k] :
        p \in {<<tA, tBar>>, <<tAA, tBar>>, <<tFoo, tBar>>, <<tA, <<>>>>}, k \in 0..MaxSkip}

InitReplace == InitNames(ReplaceLines)

SpecReplace == InitReplace /\ [][NextCall]_vars

\* where the occurrences of search in s begin, counted from the left and
\* not overlapping
RECURSIVE Occurrences(_, _, _)
Occurrences(s, search, from) ==
    LET hits == {i \in from..(Len(s) - Len(search) + 1) :
                    SubSeq(s, i, i + Len(search) - 1) = search}
    IN  IF hits = {} THEN <<>>
        ELSE <<Min(hits)>> \o Occurrences(s, search, Min(hits) + Len(search))

\* s with the Len(old) characters at p replaced by new
ReplacedAt(s, p, old, new) ==
    SubSeq(s, 1, p - 1) \o new \o SubSeq(s, p + Len(old), Len(s))

\* the name replace is to give the file when there is a (skip+1)-th occurrence
Replaced ==
    ReplacedAt(TheBase, Occurrences(TheBase, c.args[1], 1)[c.skipFinds + 1],
               c.args[1], c.args[2]) \o TheExt

(***************************************************************************)
(* C18: replace with 0 <= skip < number of occurrences replaces exactly    *)
(* the (skip+1)-th occurrence of search (left to right, not overlapping)   *)
(* with replaceWith and leaves every other character unchanged (foo-foo,   *)
(* foo, bar, skip 1 gives foo-bar). The new name is what the call          *)
(* computes, and the name of the file afterwards whenever anything is left *)
(* of it.                                                                  *)
(***************************************************************************)
C18_ReplacesTheSkippedToOccurrence ==
    (/\ pc # "call"
     /\ c.skipFinds < Len(Occurrences(TheBase, c.args[1], 1))) =>
        /\ pc = "done"
        /\ res.planned
        /\ res.newPath = Replaced
        /\ Replaced # <<>> => RenamedTo(Replaced)

\* foo-foo.txt with skip 1 became foo-bar.txt
C18_Witness ==
    /\ pc = "done"
    /\ TheName = nFooFoo
    /\ c.args[1] = tFoo
    /\ c.skipFinds = 1
    /\ Exists(fs, <<"f", "o", "o", "-", "b", "a", "r", ".", "t", "x", "t">>)
    /\ ~Exists(fs, nFooFoo)

(***************************************************************************)
(* C19: when search occurs at least once in the base name and there is no  *)
(* (skip+1)-th occurrence (skip > occurrences - 1), replace returns an     *)
(* error and renames nothing.                                              *)
(***************************************************************************)
C19_SkipPastTheLastIsAnError ==
    (/\ pc # "call"
     /\ Len(Occurrences(TheBase, c.args[1], 1)) >= 1
     /\ c.skipFinds > Len(Occurrences(TheBase, c.args[1], 1)) - 1) =>
        /\ pc = "done"
        /\ res.out = "err"
        /\ NotRenamed

(***************************************************************************)
(* deleteParts.                                                            *)
(***************************************************************************)
PartsLines ==
    {[Flags0 EXCEPT !.cmd = "delete-parts", !.args = <<l>>, !.fromBack = fb] :
        l \in {<<"1">>, tTwo, tOneThree, <<"2", ",", "2">>}, fb \in BOOLEAN}

InitDeleteParts == InitNames(PartsLines)

SpecDeleteParts == InitDeleteParts /\ [][NextCall]_vars

\* the segments of s: the stretches between its dashes
RECURSIVE Segments(_)
Segments(s) ==
    LET dashes == {i \in 1..Len(s) : s[i] = "-"}
    IN  IF dashes = {} THEN <<s>>
        ELSE <<SubSeq(s, 1, Min(dashes) - 1)>> \o Segments(SubSeq(s, Min(dashes) + 1, Len(s)))

\* the 1-based position of segment i of n, from the front or from the back
Position(i, n, fromBack) == IF fromBack THEN n - i + 1 ELSE i

\* the segments whose position is not in drop, with a dash between them
RECURSIVE Remaining(_, _, _, _)
Remaining(segs, i, drop, fromBack) ==
    IF i > Len(segs) THEN <<>>
    ELSE LET rest == Remaining(segs, i + 1, drop, fromBack)
             kept == \E j \in (i + 1)..Len(segs) : Position(j, Len(segs), fromBack) \notin drop
         IN  IF Position(i, Len(segs), fromBack) \in drop THEN rest
             ELSE segs[i] \o (IF kept THEN <<"-">> ELSE <<>>) \o rest

\* the name deleteParts is to give the file
PartsLeft ==
    Remaining(Segments(TheBase), 1,
              {IntList(c.args[1])[k] : k \in 1..Len(IntList(c.args[1]))}, c.fromBack) \o TheExt

(***************************************************************************)
(* C20: deleteParts drops exactly the segments whose 1-based position,     *)
(* counted from the front or from the back when fromBack is set, is in     *)
(* partsToDelete and keeps all other segments in their order ([1,3] from   *)
(* the back on foo-bar-baz-quix-quiix gives foo-bar-quix). The new name is *)
(* what the call computes, and the name of the file afterwards whenever    *)
(* anything is left of it.                                                 *)
(***************************************************************************)
C20_DropsTheListedSegments ==
    pc # "call" =>
        /\ pc = "done"
        /\ res.planned
        /\ res.newPath = PartsLeft
        /\ PartsLeft # <<>> => RenamedTo(PartsLeft)

\* foo-bar-baz-quix-quiix.txt lost its last and its third last segment
C20_Witness ==
    /\ pc = "done"
    /\ TheName = nQuiix
    /\ c.args[1] = tOneThree
    /\ c.fromBack
    /\ Exists(fs, <<"f", "o", "o", "-", "b", "a", "r", "-", "q", "u", "i", "x", ".", "t", "x", "t">>)
    /\ ~Exists(fs, nQuiix)

(***************************************************************************)
(* prefix and suffix.                                                      *)
(***************************************************************************)
PrefixLines ==
    {[Flags0 EXCEPT !.cmd = "prefix", !.args = <<p>>, !.skipParts = k] :
        p \in {tA, tPrefix}, k \in 0..MaxSkip}

InitPrefix == InitNames(PrefixLines)

SpecPrefix == InitPrefix /\ [][NextCall]_vars

\* the segments with a dash between each two of them
RECURSIVE Dashed(_)
Dashed(segs) ==
    IF segs = <<>> THEN <<>>
    ELSE IF Len(segs) = 1 THEN segs[1]
    ELSE segs[1] \o <<"-">> \o Dashed(Tail(segs))

\* the name whose segments are the first skip segments of the base name,
\* then newPart, then the remaining ones
WithSegment(skip, newPart) ==
    Dashed(SubSeq(Segments(TheBase), 1, skip) \o <<newPart>>
           \o SubSeq(Segments(TheBase), skip + 1, Len(Segments(TheBase)))) \o TheExt

(***************************************************************************)
(* C21: for a dash-free newPart and 0 <= skip <= number of segments,       *)
(* prefix inserts newPart as a new segment after the first skip segments:  *)
(* the segments of the new base name are the first skip segments, newPart, *)
(* then the remaining segments, and the extension is unchanged (1.txt with *)
(* skip 1 gives 1-prefix.txt).                                             *)
(***************************************************************************)
C21_PrefixInsertsASegment ==
    (pc # "call" /\ c.skipParts <= Len(Segments(TheBase))) =>
        (pc = "done" /\ RenamedTo(WithSegment(c.skipParts, c.args[1])))

SuffixLines ==
    {[Flags0 EXCEPT !.cmd = "suffix", !.args = <<p>>, !.skipParts = k] :
        p \in {tA, tPrefix}, k \in 0..(MaxSkip + 1)}

InitSuffix == InitNames(SuffixLines)

SpecSuffix == InitSuffix /\ [][NextCall]_vars

(***************************************************************************)
(* C22: suffix is prefix counted from the end: for 0 <= skip <= n, n the   *)
(* number of segments, suffix with skip does what prefix with n - skip     *)
(* does, so that skip 0 appends newPart as the last segment; for skip > n  *)
(* suffix returns an error and the file is not renamed.                    *)
(***************************************************************************)
C22_SuffixIsPrefixFromTheEnd ==
    pc # "call" =>
        /\ pc = "done"
        /\ c.skipParts <= Len(Segments(TheBase)) =>
              /\ res.planned
              /\ res = prefix(fileInfoList[1], c.args[1],
                              Len(Segments(TheBase)) - c.skipParts, c.force, c.dryRun,
                              [n \in {TheName} |-> "f1"])
        /\ c.skipParts = 0 => RenamedTo(WithSegment(Len(Segments(TheBase)), c.args[1]))
        /\ c.skipParts > Len(Segments(TheBase)) => (res.out = "err" /\ NotRenamed)

(***************************************************************************)
(* suffix with skip 0, then deleteParts of the last segment of the file    *)
(* suffix has renamed.                                                     *)
(***************************************************************************)
RoundTripLines ==
    {[Flags0 EXCEPT !.cmd = "suffix", !.args = <<p>>] : p \in {tA, tPrefix, tTwo}}

InitRoundTrip == InitNames(RoundTripLines)

\* deleteParts(fi, []int{1}, true, ...) on the file under its new name
CallDeleteLast ==
    /\ pc = "done"
    /\ res.out = "nil"
    /\ res.planned
    /\ Len(dispatched) = 1
    /\ LET r == deleteParts([name |-> res.newPath], <<1>>, TRUE, c.force, c.dryRun, fs)
       IN  /\ res' = r
           /\ fs' = r.fs
           /\ dispatched' = Append(dispatched, [name |-> res.newPath, out |-> r.out])
           /\ pc' = "back"
    /\ UNCHANGED <<c, fileInfoList, idx, ret>>

NextRoundTrip == CallOp \/ CallDeleteLast

SpecRoundTrip == InitRoundTrip /\ [][NextRoundTrip]_vars

DotChars == {"-", ".", "a"}

\* the names a regular file can have over DotChars ("." and ".." are
\* directories)
DotNames ==
    UNION {[1..k -> DotChars] : k \in 1..MaxNameLen} \ {<<".">>, <<".", ".">>}

InitSplit ==
    /\ c = [Flags0 EXCEPT !.cmd = "prefix"]
    /\ fileInfoList \in {<<[name |-> n]>> : n \in DotNames \cup Samples}
    /\ fs = [n \in {fileInfoList[1].name} |-> "f1"]
    /\ pc = "call"
    /\ idx = 0
    /\ dispatched = <<>>
    /\ res = NoResult
    /\ ret = ""

\* filePath := fi.Name(); basePath, ext; parts := strings.Split(basePath, separator)
SplitName ==
    /\ pc = "call"
    /\ res' = [basePath |-> SplitExt(fileInfoList[1].name).basePath,
               ext |-> SplitExt(fileInfoList[1].name).ext,
               parts |-> Split(SplitExt(fileInfoList[1].name).basePath, separator)]
    /\ pc' = "split"
    /\ UNCHANGED <<fs, c, fileInfoList, idx, dispatched, ret>>

NextSplit == SplitName

SpecSplit == InitSplit /\ [][NextSplit]_vars

(***************************************************************************)
(* C24: splitting a file name and joining it again is the identity: for    *)
(* every file name, basePath followed by the extension is the name, and    *)
(* the segments of basePath joined with "-" are basePath.                  *)
(***************************************************************************)
C24_SplitJoinIsIdentity ==
    pc = "split" =>
        /\ res.basePath \o res.ext = TheName
        /\ Join(res.parts, separator) = res.basePath
        /\ Dashed(res.parts) = res.basePath

\* a name with two dots and an empty segment was split and joins back
C24_Witness ==
    /\ pc = "split"
    /\ TheName = <<"a", "-", "-", ".", "a", ".", "a">>
    /\ res.ext = <<".", "a">>
    /\ Len(res.parts) = 3

(***************************************************************************)
(* reEncode: the ReEncoder parameters, the name of the output and the      *)
(* call of the encoder.                                                    *)
(***************************************************************************)
encoderH264 == <<"l", "i", "b", "x", "2", "6", "4">>
encoderH265 == <<"l", "i", "b", "x", "2", "6", "5">>
encoderVP9 == <<"v", "p", "9">>

allowedPresets ==
    <<<<"u", "l", "t", "r", "a", "f", "a", "s", "t">>,
      <<"s", "u", "p", "e", "r", "f", "a", "s", "t">>,
      <<"v", "e", "r", "y", "f", "a", "s", "t">>,
      <<"f", "a", "s", "t", "e", "r">>,
      <<"f", "a", "s", "t">>,
      <<"m", "e", "d", "i", "u", "m">>,
      <<"s", "l", "o", "w">>,
      <<"s", "l", "o", "w", "e", "r">>,
      <<"v", "e", "r", "y", "s", "l", "o", "w">>>>

\* the keys GetPath reads, in its order, and those shown by their name
ReEncoderKeys == <<"-c:v", "-hwaccel", "-crf", "-lossless", "-preset">>
ReEncoderBoolKeys == {"-lossless"}

NewReEncoder == [params |-> [k \in {} |-> <<>>], order |-> <<>>]

ReEncoder_Set(r, key, value) ==
    [params |-> [k \in DOMAIN r.params \cup {key} |-> IF k = key THEN value ELSE r.params[k]],
     order |-> IF key \in DOMAIN r.params THEN r.order ELSE Append(r.order, key)]

ReEncoder_Delete(r, key) ==
    IF key \notin DOMAIN r.params THEN r
    ELSE [params |-> [k \in DOMAIN r.params \ {key} |-> r.params[k]],
          order |-> SelectSeq(r.order, LAMBDA k : k # key)]

\* strings.Trim(key, "-") of the keys in ReEncoderBoolKeys
TrimmedKey(key) == IF key = "-lossless" THEN <<"l", "o", "s", "s", "l", "e", "s", "s">> ELSE <<>>

RECURSIVE PathValues(_, _)
PathValues(r, i) ==
    IF i > Len(ReEncoderKeys) THEN <<>>
    ELSE (IF ReEncoderKeys[i] \in DOMAIN r.params
          THEN <<IF ReEncoderKeys[i] \in ReEncoderBoolKeys
                 THEN TrimmedKey(ReEncoderKeys[i]) ELSE r.params[ReEncoderKeys[i]]>>
          ELSE <<>>) \o PathValues(r, i + 1)

ReEncoder_GetPath(r) == Join(PathValues(r, 1), <<"-">>)

\* findPreset: the preset when it is an allowed one
findPreset(preset) ==
    IF \E i \in 1..Len(allowedPresets) : allowedPresets[i] = preset
    THEN [preset |-> preset, err |-> ""]
    ELSE [preset |-> <<>>, err |-> "invalid preset"]

\* the "switch hwaccel" of each codec
ForHwaccel(r, hwaccel, qsvCodec) ==
    IF hwaccel = <<"q", "s", "v">>
    THEN ReEncoder_Set(ReEncoder_Delete(ReEncoder_Delete(r, "-preset"), "-crf"), "-c:v", qsvCodec)
    ELSE ReEncoder_Delete(ReEncoder_Delete(r, "-hwaccel"), "-hwaccel_device")

\* the parameters after the "switch codec"; crf0 is the crf of a crf of 0
ForX26x(r, codec, xParams, crf, crf0, preset, hwaccel, qsvCodec) ==
    ForHwaccel(
        ReEncoder_Set(
            ReEncoder_Set(
                ReEncoder_Set(
                    ReEncoder_Set(
                        ReEncoder_Set(ReEncoder_Delete(r, "-crf"), "-c:v", codec),
                        xParams, <<"k", "e", "y", "i", "n", "t", "=", "1">>),
                    "-preset", preset),
                "-crf", Itoa(IF crf = 0 THEN crf0 ELSE crf)),
            "-c:a", <<"c", "o", "p", "y">>),
        hwaccel, qsvCodec)

ForVP9(r, crf, hwaccel) ==
    LET a == ReEncoder_Set(
                 ReEncoder_Set(
                     ReEncoder_Set(
                         ReEncoder_Set(ReEncoder_Delete(ReEncoder_Delete(r, "-preset"), "-crf"),
                                       "-c:v", encoderVP9),
                         "-g", <<"1">>),
                     "-crf", Itoa(crf)),
                 "-c:a", <<"c", "o", "p", "y">>)
        b == IF crf = 0 THEN ReEncoder_Set(ReEncoder_Delete(a, "-crf"), "-lossless", <<"1">>)
             ELSE a
    IN  ForHwaccel(b, hwaccel, <<"v", "p", "9", "_", "q", "s", "v">>)

\* the loop that looks for a name no file has: base-path.ext, then
\* base-path1.ext, base-path2.ext, ...
RECURSIVE FreeOutput(_, _, _, _, _)
FreeOutput(fsys, basePath, path, extNew, i) ==
    LET outputPath == basePath \o <<"-">> \o path
                      \o (IF i = 0 THEN <<>> ELSE Itoa(i)) \o <<".">> \o extNew
    IN  IF Exists(fsys, outputPath) THEN FreeOutput(fsys, basePath, path, extNew, i + 1)
        ELSE outputPath

\* exec("mv old new"): nothing happens when old is missing
Mv(fsys, old, new) ==
    IF ~Exists(fsys, old) \/ old = new THEN fsys
    ELSE [n \in (DOMAIN fsys \ {old}) \cup {new} |-> IF n = new THEN fsys[old] ELSE fsys[n]]

\* bitRatesOk: getNewBitRates (ffprobe) succeeds; execOk: ffmpeg succeeds
\* and writes the output
reEncode(fi, codec, crf, preset, hwaccel, replaceFile, dryRun, bitRatesOk, execOk, fsys) ==
    LET filePath == fi.name
        se == SplitExt(filePath)
        extNew == IF codec = encoderVP9 THEN <<"m", "k", "v">> ELSE <<"m", "p", "4">>
        p0 == ReEncoder_Set(
                  ReEncoder_Set(
                      ReEncoder_Set(
                          ReEncoder_Set(
                              ReEncoder_Set(NewReEncoder, "-hwaccel", <<"a", "u", "t", "o">>),
                              "-hwaccel_device", <<>>),
                          "-i", filePath),
                      "-crf", Itoa(crf)),
                  "-preset", preset)
        fp == findPreset(preset)
        p1 == IF codec = encoderH265
              THEN ForX26x(p0, encoderH265, "-x265-params", crf, 23, fp.preset, hwaccel,
                           <<"h", "e", "v", "c", "_", "q", "s", "v">>)
              ELSE IF codec = encoderH264
              THEN ForX26x(p0, encoderH264, "-x264-params", crf, 20, fp.preset, hwaccel,
                           <<"h", "2", "6", "4", "_", "q", "s", "v">>)
              ELSE IF codec = encoderVP9 THEN ForVP9(p0, crf, hwaccel)
              ELSE p0
        p2 == IF codec = encoderH265 THEN ReEncoder_Set(p1, "-tag:v", <<"h", "v", "c", "1">>) ELSE p1
        p3 == IF hwaccel # <<>>
              THEN ReEncoder_Set(ReEncoder_Set(ReEncoder_Set(p2, "-b:v", <<"1">>),
                                               "-maxrate", <<"2">>), "-bufsize", <<"2">>)
              ELSE p2
        outputPath == FreeOutput(fsys, se.basePath, ReEncoder_GetPath(p3), extNew, 0)
        written == IF execOk
                   THEN [n \in DOMAIN fsys \cup {outputPath} |->
                            IF n = outputPath THEN "out" ELSE fsys[n]]
                   ELSE fsys
        backupFile == se.basePath \o <<"-", "b", "a", "c", "k", "u", "p", ".">> \o extNew
        replaced == IF replaceFile
                    THEN Mv(Mv(written, filePath, backupFile), outputPath, filePath)
                    ELSE written
    IN  IF codec \in {encoderH265, encoderH264} /\ fp.err # "" THEN OpErr(fp.err, fsys)
        ELSE IF hwaccel # <<>> /\ ~bitRatesOk THEN OpErr("unable to get bit rates", fsys)
        ELSE IF dryRun THEN OpNil(TRUE, outputPath, fsys)
        ELSE [out |-> IF execOk THEN "nil" ELSE "err",
              err |-> IF execOk THEN "" ELSE "exec", fs |-> replaced,
              planned |-> TRUE, newPath |-> outputPath, called |-> <<>>, sr |-> <<>>]

tQsv == <<"q", "s", "v">>

\* the crf values of the tests
CrfValues == {0, 23, 28, 51}

ReEncodeCalls(codec) ==
    {[cmd |-> "re-encode", codec |-> codec, crf |-> crf, preset |-> preset, hwaccel |-> hw,
      replaceFile |-> rf, dryRun |-> dr] :
        crf \in CrfValues, preset \in {allowedPresets[3], <<>>, tNaN}, hw \in {<<>>, tQsv},
        rf \in BOOLEAN, dr \in BOOLEAN}

\* the directory holds the file, and in some runs the output of an earlier
\* run of the same call as well (entry "old")
InitReEncode ==
    /\ \E codec \in {encoderH264, encoderH265, encoderVP9, tNaN} : c \in ReEncodeCalls(codec)
    /\ fileInfoList \in {<<[name |-> n]>> : n \in {nFoo, nBar1, nDot, tA}}
    /\ \E taken \in BOOLEAN :
          LET alone == [n \in {fileInfoList[1].name} |-> "f1"]
              first == reEncode(fileInfoList[1], c.codec, c.crf, c.preset, c.hwaccel, FALSE,
                                TRUE, TRUE, TRUE, alone)
          IN  fs = IF taken /\ first.planned
                   THEN [n \in {fileInfoList[1].name, first.newPath} |->
                            IF n = first.newPath THEN "old" ELSE "f1"]
                   ELSE alone
    /\ pc = "call"
    /\ idx = 0
    /\ dispatched = <<>>
    /\ res = NoResult
    /\ ret = ""

CallReEncode ==
    /\ pc = "call"
    /\ \E bitRatesOk \in BOOLEAN, execOk \in BOOLEAN :
          Dispatched(fileInfoList[1],
                     reEncode(fileInfoList[1], c.codec, c.crf, c.preset, c.hwaccel,
                              c.replaceFile, c.dryRun, bitRatesOk, execOk, fs))
    /\ UNCHANGED <<c, fileInfoList>>

NextReEncode == CallReEncode

SpecReEncode == InitReEncode /\ [][NextReEncode]_vars

\* the crf the name is to show for a crf of 0
DefaultCrf == IF c.codec = encoderH264 THEN 23 ELSE 28

\* the name the output is to have
OutputName ==
    IF c.codec = encoderVP9
    THEN TheBase \o <<"-">> \o encoderVP9 \o <<"-">>
         \o (IF c.crf = 0 THEN <<"l", "o", "s", "s", "l", "e", "s", "s">> ELSE Itoa(c.crf)) \o <<".", "m", "k", "v">>
    ELSE TheBase \o <<"-">> \o c.codec \o <<"-">>
         \o Itoa(IF c.crf = 0 THEN DefaultCrf ELSE c.crf) \o <<"-">> \o c.preset
         \o <<".", "m", "p", "4">>

(***************************************************************************)
(* C25: reEncode names its output base-codec-crf-preset.mp4 for libx264    *)
(* and libx265 and base-vp9-crf.mkv for vp9; for a crf of 0 the crf of the *)
(* name is 23 for libx264 and 28 for libx265, and vp9 is lossless with the *)
(* name base-vp9-lossless.mkv. (Read for calls without hardware            *)
(* acceleration whose output name no earlier file has.)                    *)
(***************************************************************************)
C25_OutputName ==
    (/\ pc = "done"
     /\ c.codec \in {encoderH264, encoderH265, encoderVP9}
     /\ c.hwaccel = <<>>
     /\ res.planned
     /\ ~(Exists(fs, OutputName) /\ fs[OutputName] = "old")) =>
        res.newPath = OutputName

(***************************************************************************)
(* prefixDate on names with runs of digits.                                *)
(***************************************************************************)
DateChars == {"0", "1", "2", "3", "9"}

\* a run of six digits with something before and after it: nothing, "20"
\* (an eight-digit date), text, a second date, an extension, a seventh digit
DateNames(chars) ==
    {pre \o d \o post :
        pre \in {<<>>, <<"2", "0">>, <<"a", "-">>},
        d \in [1..6 -> chars],
        post \in {<<>>, <<"-", "2", "0", "0", "1", "3", "1">>, <<".", "a">>, <<"1">>}}

InitPrefixDate ==
    /\ c = [Flags0 EXCEPT !.cmd = "prefix-date"]
    /\ fileInfoList \in {<<[name |-> n]>> : n \in DateNames(DateChars) \cup Samples \cup {nDate}}
    /\ fs = [n \in {fileInfoList[1].name} |-> "f1"]
    /\ pc = "call"
    /\ idx = 0
    /\ dispatched = <<>>
    /\ res = NoResult
    /\ ret = ""

SpecPrefixDate == InitPrefixDate /\ [][NextCall]_vars

\* the texts of the runs of k digits in s that begin with lead, found from
\* the left and not overlapping
RECURSIVE DigitRuns(_, _, _, _)
DigitRuns(s, from, k, lead) ==
    LET hits == {i \in from..(Len(s) - k + 1) :
                    /\ \A j \in i..(i + k - 1) : s[j] \in Digits
                    /\ SubSeq(s, i, i + Len(lead) - 1) = lead}
    IN  IF hits = {} THEN <<>>
        ELSE <<SubSeq(s, Min(hits), Min(hits) + k - 1)>>
             \o DigitRuns(s, Min(hits) + k, k, lead)

\* the date matches of s: the eight-digit ones, or else the six-digit ones
DateMatches(s) ==
    IF DigitRuns(s, 1, 8, <<"2", "0">>) # <<>> THEN DigitRuns(s, 1, 8, <<"2", "0">>)
    ELSE DigitRuns(s, 1, 6, <<>>)

\* year, month and day of a match, as texts; a two-digit year is in the
\* 1900s from 69 on and in the 2000s below
DateOf(m) ==
    IF Len(m) = 8
    THEN [y |-> SubSeq(m, 1, 4), m |-> SubSeq(m, 5, 6), d |-> SubSeq(m, 7, 8)]
    ELSE [y |-> (IF DigitsValue(SubSeq(m, 1, 2)) >= 69 THEN <<"1", "9">> ELSE <<"2", "0">>)
                \o SubSeq(m, 1, 2),
          m |-> SubSeq(m, 3, 4), d |-> SubSeq(m, 5, 6)]

\* the date is one of the calendar
ValidDate(t) ==
    LET y == DigitsValue(t.y)
        m == DigitsValue(t.m)
        d == DigitsValue(t.d)
        feb == IF (y % 4 = 0 /\ y % 100 # 0) \/ y % 400 = 0 THEN 29 ELSE 28
    IN  /\ m \in 1..12
        /\ d >= 1
        /\ d <= <<31, feb, 31, 30, 31, 30, 31, 31, 30, 31, 30, 31>>[m]

(***************************************************************************)
(* C26: prefixDate fails without renaming when the base name has no date   *)
(* match or more than one; with exactly one match that is a valid date the *)
(* new name is that date as YYYY.MM.DD, a dash, then the unchanged base    *)
(* name and extension.                                                     *)
(***************************************************************************)
C26_PrefixDate ==
    pc # "call" =>
        /\ pc = "done"
        /\ Len(DateMatches(TheBase)) # 1 => (res.out = "err" /\ NotRenamed)
        /\ (Len(DateMatches(TheBase)) = 1 /\ ValidDate(DateOf(DateMatches(TheBase)[1]))) =>
              RenamedTo(DateOf(DateMatches(TheBase)[1]).y \o <<".">>
                        \o DateOf(DateMatches(TheBase)[1]).m \o <<".">>
                        \o DateOf(DateMatches(TheBase)[1]).d \o <<"-">> \o TheBase \o TheExt)

\* v-20240131.mp4 got its date in front
C26_Witness ==
    /\ pc = "done"
    /\ TheName = nDate
    /\ Exists(fs, <<"2", "0", "2", "4", ".", "0", "1", ".", "3", "1", "-">> \o nDate)
    /\ ~Exists(fs, nDate)

(***************************************************************************)
(* Runs whose file arguments have a directory part: the file dir/name,     *)
(* given as such, with or without a file of the same name in the working   *)
(* directory.                                                              *)
(***************************************************************************)
InDir(n) == nDir \o <<"/">> \o n

PathBatches(cmd) == SeqsUpTo({Pool(cmd)[1], InDir(Pool(cmd)[1])}, MaxFiles)

InitPaths ==
    /\ \E cmd \in Commands :
          \E cl \in CommandLines(cmd), b \in PathBatches(cmd), bw \in BOOLEAN,
             dr \in BOOLEAN, fo \in BOOLEAN :
             c = Invocation(cmd, cl, b, bw, dr, fo)
    /\ \E here \in BOOLEAN :
          fs = [n \in {nDir, InDir(Pool(c.cmd)[1])}
                        \cup (IF here THEN {Pool(c.cmd)[1]} ELSE {}) |->
                    IF n = nDir THEN "d1" ELSE IF n = Pool(c.cmd)[1] THEN "f1" ELSE "f2"]
    /\ pc = "start"
    /\ fileInfoList = <<>>
    /\ idx = 0
    /\ dispatched = <<>>
    /\ res = NoResult
    /\ ret = ""

SpecPaths == InitPaths /\ [][Next]_vars

\* the argument paths in the order of dispatch
ArgOrder(ctx) == IF ctx.backwards THEN Reverse(FileArgs(ctx)) ELSE FileArgs(ctx)

(***************************************************************************)
(* C27: the file an operation renames is the file that was given as        *)
(* argument and checked during collection: the source path handed to the   *)
(* rename is the path of the argument (paths are relative to the working   *)
(* directory, so two paths denote the same file when they are the same     *)
(* path), also when the argument has a directory part.                     *)
(***************************************************************************)
C27_RenamesTheArgument ==
    (pc \in {"loop", "done"} /\ idx >= 1 /\ res.sr # <<>>) =>
        res.sr[1].old = ArgOrder(c)[idx]

(***************************************************************************)
(* Runs without forceOverwrite.                                            *)
(***************************************************************************)
\* the entries of a directory
Entries(fsys) == {fsys[n] : n \in DOMAIN fsys}

\* the directories a run of the command line can have begun with
InitialDirectories ==
    Directories(Pool(c.cmd)[1], Pool(c.cmd)[2], Target(c, Pool(c.cmd)[1]),
                Target(c, Pool(c.cmd)[2]))

(***************************************************************************)
(* C28: with forceOverwrite false no sequence of rename operations over    *)
(* any batch, forwards or backwards, overwrites or removes a file: every   *)
(* file that was there before the run is there at every point of it,       *)
(* possibly under a new name, and the number of files is unchanged.        *)
(***************************************************************************)
C28_NoFileLostWithoutForce ==
    ~c.force =>
        \E before \in InitialDirectories :
            /\ Entries(fs) = Entries(before)
            /\ Cardinality(DOMAIN fs) = Cardinality(DOMAIN before)

\* a run of two files in which a rename was held back because a file had
\* the new name, while another file was renamed
C28_Witness ==
    /\ pc = "done"
    /\ ~c.force
    /\ ~c.dryRun
    /\ Len(dispatched) = 2
    /\ res.sr # <<>>
    /\ res.sr[1].old # res.sr[1].new
    /\ res.called = <<>>
    /\ Cardinality(DOMAIN fs) = 5

(***************************************************************************)
(* mergeParts and the text outside the descriptions.                       *)
(***************************************************************************)
\* new is text with something put in after its first p characters
PutInAfter(new, text, p) ==
    /\ Len(new) >= Len(text)
    /\ SubSeq(new, 1, p) = SubSeq(text, 1, p)
    /\ SubSeq(new, Len(new) - (Len(text) - p) + 1, Len(new)) = SubSeq(text, p + 1, Len(text))

\* the base name without its matched descriptions
Outside == Unmatched(TheBase, MergeMatches(TheBase), 1)

(***************************************************************************)
(* C29: mergeParts never loses or alters text of the base name that is not *)
(* part of a matched description: every character before, between or      *)
(* after the matches is in the new name, unchanged and in the same order:  *)
(* the new name is that text with the merged description put in at one     *)
(* place, and the extension.                                               *)
(***************************************************************************)
C29_KeepsTextOutsideDescriptions ==
    pc # "call" =>
        /\ pc = "done"
        /\ res.out = "nil"
        /\ res.planned
        /\ \E p \in 0..Len(Outside) : PutInAfter(res.newPath, Outside \o TheExt, p)


(***************************************************************************)
(* crop.                                                                   *)
(***************************************************************************)
eightKPreset == <<"8", "k">>
fourKPreset == <<"4", "k">>
qHDPreset == <<"q", "h", "d">>
twoKPreset == <<"2", "k">>
fullHDPreset == <<"f", "u", "l", "l", "h", "d">>
hdPreset == <<"h", "d">>
sdPreset == <<"s", "d">>
eightKPreset2 == <<"4", "3", "2", "0", "p">>
fourKPreset2 == <<"2", "1", "6", "0", "p">>
qHDPreset2 == <<"1", "4", "4", "0", "p">>
fullHDPreset2 == <<"1", "0", "8", "0", "p">>
hdPreset2 == <<"7", "2", "0", "p">>
edPreset == <<"5", "4", "0", "p">>
sdPreset2 == <<"4", "8", "0", "p">>

eightKWidth == 7680
eightKHeight == 4320
fourKWidth == 3840
fourKHeight == 2160
qHDWidth == 2560
qHDHeight == 1440
twoKWidth == 2048
twoKHeight == 1080
fullHDWidth == 1920
fullHDHeight == 1080
hdWidth == 1280
hdHeight == 720
edWidth == 960
edHeight == 540
sdWidth == 640
sdHeight == 480

\* the switch on dimensionPreset: the width and height the call goes on with
PresetDimensions(dimensionPreset, width, height) ==
    CASE dimensionPreset \in {eightKPreset, eightKPreset2} -> <<eightKWidth, eightKHeight>>
      [] dimensionPreset \in {fourKPreset, fourKPreset2} -> <<fourKWidth, fourKHeight>>
      [] dimensionPreset \in {qHDPreset, qHDPreset2} -> <<qHDWidth, qHDHeight>>
      [] dimensionPreset = twoKPreset -> <<twoKWidth, twoKHeight>>
      [] dimensionPreset \in {fullHDPreset, fullHDPreset2} -> <<fullHDWidth, fullHDHeight>>
      [] dimensionPreset \in {hdPreset, hdPreset2} -> <<hdWidth, hdHeight>>
      [] dimensionPreset = edPreset -> <<edWidth, edHeight>>
      [] dimensionPreset \in {sdPreset, sdPreset2} -> <<sdWidth, sdHeight>>
      [] OTHER -> <<width, height>>

\* Go's integer division, which rounds towards zero
Quo(a, b) == IF a >= 0 THEN a \div b ELSE 0 - ((0 - a) \div b)

\* strconv.Atoi; the numbers of the model are far inside the range of int
Atoi(s) == ParseInt(s)

\* dimensions is what getDimensions found in ffprobe's output: WIDTHxHEIGHT
parseDimensions(dimensions) ==
    LET d == Split(dimensions, <<"x">>)
    IN  IF Len(d) # 2 THEN [err |-> "wrong old dimensions", width |-> 0, height |-> 0]
        ELSE IF Atoi(d[1]).err # "" \/ Atoi(d[2]).err # ""
        THEN [err |-> "wrong old dimensions", width |-> 0, height |-> 0]
        ELSE [err |-> "", width |-> Atoi(d[1]).val, height |-> Atoi(d[2]).val]

tLeft == <<"l", "e", "f", "t">>
tCenter == <<"c", "e", "n", "t", "e", "r">>
tRight == <<"r", "i", "g", "h", "t">>
tTop == <<"t", "o", "p">>
tBottom == <<"b", "o", "t", "t", "o", "m">>

\* the two switches on x and y: near is "left" or "top", far is "right" or
\* "bottom"
CropPosition(at, near, far, origin, size) ==
    IF at = near THEN [err |-> "", val |-> 0]
    ELSE IF at \in {tCenter, <<>>} THEN [err |-> "", val |-> Quo(origin - size, 2)]
    ELSE IF at = far THEN [err |-> "", val |-> origin - size]
    ELSE Atoi(at)

\* the result of crop: rect is the rectangle of the command that was built,
\* ran tells whether ffmpeg was called
CropResult(out, err, fsys, planned, newPath, rect, ran) ==
    [out |-> out, err |-> err, fs |-> fsys, planned |-> planned, newPath |-> newPath,
     called |-> <<>>, sr |-> <<>>, rect |-> rect, ran |-> ran]

CropErr(msg, fsys) == CropResult("err", msg, fsys, FALSE, <<>>, <<>>, FALSE)

\* probed: the dimensions getDimensions returns, empty when ffprobe fails or
\* prints none; execOk: ffmpeg succeeds and writes the output
crop(fi, width, height, x, y, dimensionPreset, forceOverwrite, dryRun, probed, execOk, fsys) ==
    LET se == SplitExt(fi.name)
        wh == PresetDimensions(dimensionPreset, width, height)
        w == wh[1]
        h == wh[2]
        origin == parseDimensions(probed)
        widthOrigin == origin.width
        heightOrigin == origin.height
        xPos == CropPosition(x, tLeft, tRight, widthOrigin, w)
        yPos == CropPosition(y, tTop, tBottom, heightOrigin, h)
        newPath == se.basePath \o <<"-">> \o Itoa(w) \o <<"x">> \o Itoa(h) \o se.ext
        rect == <<w, h, xPos.val, yPos.val>>
        written == [n \in DOMAIN fsys \cup {newPath} |->
                       IF n = newPath THEN "out" ELSE fsys[n]]
    IN  IF w = 0 \/ h = 0 THEN CropErr("wrong dimensions", fsys)
        ELSE IF probed = <<>> THEN CropErr("failed to retrieve video dimensions", fsys)
        ELSE IF origin.err # "" THEN CropErr("failed to parse video dimensions", fsys)
        ELSE IF widthOrigin < w \/ heightOrigin < h THEN CropErr("wrong dimensions", fsys)
        ELSE IF xPos.err # "" THEN CropErr("wrong instructions, x", fsys)
        ELSE IF yPos.err # "" THEN CropErr("wrong instructions, y", fsys)
        ELSE IF widthOrigin < w + yPos.val \/ heightOrigin < h + xPos.val
        THEN CropErr("wrong instructions", fsys)
        ELSE IF dryRun THEN CropResult("nil", "", fsys, TRUE, newPath, rect, FALSE)
        ELSE IF ~forceOverwrite /\ Exists(fsys, newPath)
        THEN CropResult("err", "file already exists", fsys, TRUE, newPath, rect, FALSE)
        ELSE IF ~execOk
        THEN CropResult("err", "failed to crop video", fsys, TRUE, newPath, rect, TRUE)
        ELSE CropResult("nil", "", written, TRUE, newPath, rect, TRUE)

\* App.crop: the flags of the command line are the arguments of crop
App_crop(ctx, fi, dryRun, probed, execOk, fsys) ==
    crop(fi, ctx.width, ctx.height, ctx.x, ctx.y, ctx.dimensionPreset, ctx.force, dryRun,
         probed, execOk, fsys)

\* the longest side of the small frames and rectangles
MaxSide == 2

nVideo == <<"f", "o", "o", ".", "m", "p", "4">>

\* the frame of the file: small ones, the example video of the tests and
\* one a preset fits into
Frames == {<<fw, fh>> : fw \in 1..MaxSide, fh \in 1..MaxSide} \cup {<<320, 240>>, <<640, 480>>}

CropSides(tested) == (0 - 1)..(MaxSide + 1) \cup {tested}

CropPositions(near, far, tested) ==
    {near, far, tCenter, <<>>, tNaN} \cup {Itoa(k) : k \in (0 - 1)..MaxSide} \cup {Itoa(tested)}

Presets ==
    {eightKPreset, fourKPreset, qHDPreset, twoKPreset, fullHDPreset, hdPreset, sdPreset,
     eightKPreset2, fourKPreset2, qHDPreset2, fullHDPreset2, hdPreset2, edPreset, sdPreset2}

\* a preset is given without width and height, which then have the flags'
\* default 0
CropCalls ==
    {[cmd |-> "crop", width |-> w, height |-> h, x |-> x, y |-> y, dimensionPreset |-> p,
      force |-> f, dryRun |-> d] :
        w \in CropSides(120), h \in CropSides(80), x \in CropPositions(tLeft, tRight, 200),
        y \in CropPositions(tTop, tBottom, 160),
        p \in {<<>>}, f \in BOOLEAN, d \in BOOLEAN}
    \cup
    {[cmd |-> "crop", width |-> 0, height |-> 0, x |-> x, y |-> y, dimensionPreset |-> p,
      force |-> f, dryRun |-> d] :
        x \in CropPositions(tLeft, tRight, 200), y \in CropPositions(tTop, tBottom, 160),
        p \in Presets, f \in BOOLEAN, d \in BOOLEAN}

\* the directory holds the video, and in some runs a file that has the name
\* of the output as well (entry "old")
InitCrop ==
    /\ c \in CropCalls
    /\ fileInfoList \in {<<[name |-> nVideo, frame |-> fr]>> : fr \in Frames}
    /\ \E taken \in BOOLEAN :
          LET wh == PresetDimensions(c.dimensionPreset, c.width, c.height)
              newPath == SplitExt(nVideo).basePath \o <<"-">> \o Itoa(wh[1]) \o <<"x">>
                         \o Itoa(wh[2]) \o SplitExt(nVideo).ext
          IN  fs = IF taken
                   THEN [n \in {nVideo, newPath} |-> IF n = newPath THEN "old" ELSE "f1"]
                   ELSE [n \in {nVideo} |-> "f1"]
    /\ pc = "call"
    /\ idx = 0
    /\ dispatched = <<>>
    /\ res = NoResult
    /\ ret = ""

\* ffprobe prints the frame of the file, or fails
CallCrop ==
    /\ pc = "call"
    /\ \E probeOk \in BOOLEAN, execOk \in BOOLEAN :
          LET fr == fileInfoList[1].frame
              probed == IF probeOk THEN Itoa(fr[1]) \o <<"x">> \o Itoa(fr[2]) ELSE <<>>
          IN  Dispatched(fileInfoList[1],
                         App_crop(c, fileInfoList[1], c.dryRun, probed, execOk, fs))
    /\ UNCHANGED <<c, fileInfoList>>

NextCrop == CallCrop

SpecCrop == InitCrop /\ [][NextCrop]_vars

\* the source frame and the rectangle asked for
SourceWidth == fileInfoList[1].frame[1]
SourceHeight == fileInfoList[1].frame[2]
AskedWidth == PresetDimensions(c.dimensionPreset, c.width, c.height)[1]
AskedHeight == PresetDimensions(c.dimensionPreset, c.width, c.height)[2]

\* where the rectangle is to be: "left" and "top" at 0, "center" (the
\* default) in the middle, "right" and "bottom" at the far edge, a number
\* at that number
Placed(at, near, far, origin, size) ==
    IF at = near THEN 0
    ELSE IF at \in {tCenter, <<>>} THEN Quo(origin - size, 2)
    ELSE IF at = far THEN origin - size
    ELSE Atoi(at).val

Placeable(at, near, far) == at \in {near, far, tCenter, <<>>} \/ Atoi(at).err = ""

XPos == Placed(c.x, tLeft, tRight, SourceWidth, AskedWidth)
YPos == Placed(c.y, tTop, tBottom, SourceHeight, AskedHeight)

\* the crop rectangle lies inside the source frame
InsideFrame ==
    /\ Placeable(c.x, tLeft, tRight)
    /\ Placeable(c.y, tTop, tBottom)
    /\ XPos + AskedWidth <= SourceWidth
    /\ YPos + AskedHeight <= SourceHeight

NoFileCreated == \A n \in DOMAIN fs : fs[n] # "out"

(***************************************************************************)
(* C30: crop invokes the encoder only when the crop rectangle lies inside  *)
(* the source frame (xPos + width <= source width and yPos + height <=     *)
(* source height), with "center" placing the rectangle at                  *)
(* ((W - w) / 2, (H - h) / 2) and "left" and "top" at 0; for every other   *)
(* width, height, x and y it returns an error and creates no file.         *)
(***************************************************************************)
C30_CropsInsideTheFrameOnly ==
    pc = "done" =>
        /\ res.ran => (InsideFrame /\ res.rect = <<AskedWidth, AskedHeight, XPos, YPos>>)
        /\ ~InsideFrame => (res.out = "err" /\ ~res.ran /\ NoFileCreated)

====
